---- MODULE Spec2Model ----
(***************************************************************************)
(* Retrieval-augmented research pipeline of stock-ai: the Pipeline         *)
(* Controller (tools/researcher.py) in its one-shot and streaming modes,   *)
(* the Cache Layer (tools/cache.py) and the stage functions the controller *)
(* sequences (tools/content_fetcher.py, tools/rag_pipeline.py,             *)
(* tools/reranker.py).                                                     *)
(*                                                                         *)
(* Abstractions.  A text is the number of its words, every word WordLen    *)
(* characters long and separated by one blank, so that both the character  *)
(* thresholds and the word thresholds of the code are decided by the same  *)
(* value.  A rerank score is an integer, the score times 10000.  The text  *)
(* the generation call returns is a tagged value: not JSON at all, or JSON *)
(* for a value that is not an object, or JSON for an object of which the   *)
(* model keeps the key set, the [N] markers of its synthesis and the shape *)
(* of its catalysts entry.                                                 *)
(***************************************************************************)
EXTENDS Integers, Sequences, FiniteSets, TLC

VARIABLES
    now,        \* datetime.now(), in clock ticks
    redisUp,    \* per cache instance: self._redis is set (ping succeeded in __init__)
    redis,      \* per cache instance: the shared store, full key -> entry
    memory,     \* per cache instance: self._memory, full key -> entry
    cacheOf,    \* per run: the cache instance (deployment) the run executes in
    mode,       \* per run: "none", "oneshot" (deep_research_async), "stream" (stream_research)
    req,        \* per run: the (ticker, exchange) of the call
    pc,         \* per run: position in the coroutine / generator
    loc,        \* per run: the local variables of the call
    log,        \* per run: stages entered, cache writes and events yielded, in order
                \* (kept until the next call arrives)
    out,        \* per run: how the call ended and the document it handed over
    hist,       \* per run: bookkeeping about the call (start conditions, exception site),
                \* kept until the next call arrives
    dpc,        \* DELETE handler thread: position
    dkey,       \* DELETE handler thread: cache key being invalidated
    dhist,      \* documents evicted by DELETE handlers that have returned, per key,
                \* the runs that were in flight when a handler returned, and the
                \* run whose cache.set returned last
    oracle,     \* the fixed external outcomes of the equivalence scenario
    batch,      \* one call of fetch_all_parallel seen task by task: the sources, each
                \* task's position, the semaphore
    rk,         \* the Reranker of one process: the module globals _cross_encoder and
                \* _cross_encoder_loaded, and the calls of rerank_chunks in progress
    rag         \* one pass through tools/rag_pipeline.py: the enriched sources, the
                \* chunks built from them, the chunks kept, the citation map and the
                \* context built from those

vars == <<now, redisUp, redis, memory, cacheOf, mode, req, pc, loc, log, out,
          hist, dpc, dkey, dhist, oracle, batch, rk, rag>>

-----------------------------------------------------------------------------
(* Bounds of the model *)

MaxTime == 3
TtlTicks == 2
WordLen == 5
MaxDeletes == 1
BatchSize == 6
GatherSize == 3      \* sources handed to one call of fetch_all_parallel
MaxChunks == 3      \* chunks handed to one call of rerank_chunks
MaxSources == 3     \* enriched sources handed to one call of build_chunks_from_sources

(* Program constants *)

CHUNK_SIZE == 400
CHUNK_OVERLAP == 80
MIN_CHUNK_WORDS == 40
MIN_CONTENT_CHARS == 100
PREFILLED_CHARS == 200
MIN_FETCH_CHARS == 150
MAX_CONTENT_CHARS == 1500
MAX_CONCURRENT == 5
TOP_K == 12
HEADLINES == 5

None == [none |-> TRUE]

Min(a, b) == IF a < b THEN a ELSE b
Max(a, b) == IF a > b THEN a ELSE b

-----------------------------------------------------------------------------
(* Texts *)

\* a text field that holds None (a JSON null of the provider); 0 is the empty string
Null == -1

\* the truth value of a text field: None and "" are false
Truthy(w) == w > 0

\* value or ""
OrEmpty(w) == IF w = Null THEN 0 ELSE w

\* len(text) of a text of w words
Chars(w) == IF w = 0 THEN 0 ELSE w * (WordLen + 1) - 1

\* text[:n].split(): the words, whole or cut, that start within the first n characters
Truncate(w, n) == IF Chars(w) <= n THEN w ELSE (n + WordLen) \div (WordLen + 1)

-----------------------------------------------------------------------------
(* tools/content_fetcher.py *)

\* A fetch attempt's result: [ok |-> FALSE, text |-> 0] stands for None
NoText == [ok |-> FALSE, text |-> 0]
Text(w) == [ok |-> TRUE, text |-> w]

\* _fetch_direct / _fetch_jina: the extracted text when it is long enough, else None.
\* got = NoText stands for an error, a timeout or a status other than 200.
AcceptFetched(got) ==
    IF got.ok /\ Chars(got.text) > MIN_FETCH_CHARS
    THEN Text(Truncate(got.text, MAX_CONTENT_CHARS))
    ELSE NoText

\* fetch_single: direct first, then the rendering proxy
fetch_single(url, o) ==
    IF url = "" THEN NoText
    ELSE IF AcceptFetched(o.direct).ok THEN AcceptFetched(o.direct)
    ELSE AcceptFetched(o.jina)

\* bounded_fetch: one source under the semaphore
bounded_fetch(source, o) ==
    IF source.url = "" THEN [source EXCEPT !.fetch_status = "no_url"]
    ELSE IF Truthy(source.content) /\ Chars(source.content) > PREFILLED_CHARS
    THEN [source EXCEPT !.fetch_status = "pre_filled"]
    ELSE IF fetch_single(source.url, o).ok
    THEN [source EXCEPT !.content = fetch_single(source.url, o).text,
                        !.fetch_status = "success"]
    ELSE [source EXCEPT !.content = source.snippet,
                        !.fetch_status = IF Truthy(source.snippet) THEN "snippet_only"
                                         ELSE "failed"]

\* a bounded_fetch that gives up on a source whose requests brought nothing
SettleSuccessOnly(source, got) ==
    IF got.ok
    THEN [source EXCEPT !.content = got.text, !.fetch_status = "success"]
    ELSE source

\* bounded_fetch once fetch_single has returned got: the content and the status
Settle(source, got) ==
    IF got.ok
    THEN [source EXCEPT !.content = got.text, !.fetch_status = "success"]
    ELSE [source EXCEPT !.content = source.snippet,
                        !.fetch_status = IF Truthy(source.snippet) THEN "snippet_only"
                                         ELSE "failed"]

\* fetch_all_parallel: gather keeps the input order
fetch_all_parallel(sources, os) ==
    [i \in 1..Len(sources) |-> bounded_fetch(sources[i], os[i])]

-----------------------------------------------------------------------------
(* tools/rag_pipeline.py *)

\* windows that follow each other without overlap
ChunkStepNoOverlap == CHUNK_SIZE

ChunkStep == Max(CHUNK_SIZE - CHUNK_OVERLAP, 1)

\* chunk_text from word offset i on: the windows kept, each with the offset of its
\* first word and the number of its words
RECURSIVE ChunkFrom(_, _)
ChunkFrom(words, i) ==
    IF i >= words THEN <<>>
    ELSE LET n == Min(CHUNK_SIZE, words - i)
         IN  (IF n >= MIN_CHUNK_WORDS THEN <<[at |-> i, n |-> n]>> ELSE <<>>)
             \o ChunkFrom(words, i + ChunkStep)

\* a chunk_text that keeps every window
chunk_text_unfiltered(words) ==
    [k \in 1..((words + ChunkStep - 1) \div ChunkStep) |->
        Min(CHUNK_SIZE, words - (k - 1) * ChunkStep)]

\* chunk_text: the word counts of the chunks
chunk_text(words) ==
    LET windows == ChunkFrom(words, 0)
    IN  [k \in 1..Len(windows) |-> windows[k].n]

MakeChunk(source, text, sid) ==
    [text |-> text, source_id |-> sid, source_url |-> source.url,
     source_title |-> source.title, source_type |-> source.source,
     timestamp |-> source.timestamp, rerank_score |-> 0]

\* build_chunks_from_sources, from source i on with the next source_id sid
RECURSIVE ChunksFrom(_, _, _)
ChunksFrom(sources, i, sid) ==
    IF i > Len(sources) THEN <<>>
    ELSE IF ~Truthy(OrEmpty(sources[i].content))
            \/ Chars(OrEmpty(sources[i].content)) < MIN_CONTENT_CHARS
    THEN ChunksFrom(sources, i + 1, sid)
    ELSE LET texts == chunk_text(OrEmpty(sources[i].content))
         IN  [k \in 1..Len(texts) |-> MakeChunk(sources[i], texts[k], sid)]
             \o ChunksFrom(sources, i + 1, sid + 1)

\* a Chunker that numbers the chunks, not the sources
build_chunks_numbered(sources) ==
    LET chunks == ChunksFrom(sources, 1, 1)
    IN  [k \in 1..Len(chunks) |-> [chunks[k] EXCEPT !.source_id = k]]

build_chunks_from_sources(sources) == ChunksFrom(sources, 1, 1)

\* str(source_id)
Str(n) == ToString(n)

\* round(score, 3) of a score held in units of 1/10000, half to even
Round3(s) ==
    LET q == s \div 10
        r == s % 10
    IN  IF r > 5 \/ (r = 5 /\ q % 2 = 1) THEN (q + 1) * 10 ELSE q * 10

FirstWith(chunks, sid) ==
    CHOOSE i \in 1..Len(chunks) :
        /\ chunks[i].source_id = sid
        /\ \A j \in 1..(i - 1) : chunks[j].source_id # sid

\* the entry build_citation_map makes of a chunk
Citation(c) ==
    [url |-> c.source_url, title |-> c.source_title, source_type |-> c.source_type,
     relevance_score |-> Round3(c.rerank_score)]

\* the loop of build_citation_map from chunk i on
RECURSIVE CitationLoop(_, _, _, _)
CitationLoop(chunks, i, seen, citation_map) ==
    IF i > Len(chunks) THEN citation_map
    ELSE IF chunks[i].source_id \in seen
    THEN CitationLoop(chunks, i + 1, seen, citation_map)
    ELSE CitationLoop(chunks, i + 1, seen \cup {chunks[i].source_id},
                      (Str(chunks[i].source_id) :> Citation(chunks[i])) @@ citation_map)

\* a citation map in which a later chunk of a source replaces the earlier one
build_citation_map_last(top_chunks) ==
    LET sids == {top_chunks[i].source_id : i \in 1..Len(top_chunks)}
        last(sid) == CHOOSE i \in 1..Len(top_chunks) :
                        /\ top_chunks[i].source_id = sid
                        /\ \A j \in (i + 1)..Len(top_chunks) : top_chunks[j].source_id # sid
    IN  [k \in {Str(s) : s \in sids} |->
            Citation(top_chunks[last(CHOOSE s \in sids : Str(s) = k)])]

\* build_citation_map, keyed by str(source_id)
build_citation_map(top_chunks) == CitationLoop(top_chunks, 1, {}, <<>>)

\* the number of digits of a positive integer
RECURSIVE Digits(_)
Digits(n) == IF n < 10 THEN 1 ELSE 1 + Digits(n \div 10)

\* f"[{chunk['source_id']}] {chunk['text'][:600]}": the block and its length
Block(c) ==
    [source_id |-> c.source_id, text |-> c.text,
     len |-> 3 + Digits(c.source_id) + Min(Chars(c.text), 600)]

\* the loop of build_llm_context from chunk i on
RECURSIVE ContextLoop(_, _, _, _, _)
ContextLoop(chunks, i, blocks, total, max_chars) ==
    IF i > Len(chunks) THEN blocks
    ELSE IF total + Block(chunks[i]).len > max_chars THEN blocks
    ELSE ContextLoop(chunks, i + 1, blocks \o <<Block(chunks[i])>>,
                     total + Block(chunks[i]).len, max_chars)

\* build_llm_context: the blocks that "\n\n".join puts together
build_llm_context(top_chunks, max_chars) == ContextLoop(top_chunks, 1, <<>>, 0, max_chars)

RECURSIVE SumLen(_)
SumLen(blocks) ==
    IF blocks = <<>> THEN 0 ELSE blocks[1].len + SumLen(Tail(blocks))

\* len("\n\n".join(blocks))
JoinedLen(blocks) ==
    IF blocks = <<>> THEN 0 ELSE SumLen(blocks) + 2 * (Len(blocks) - 1)

-----------------------------------------------------------------------------
(* tools/reranker.py *)

Take(seq, k) == SubSeq(seq, 1, Min(k, Len(seq)))

\* c put into s, sorted by descending score, behind every chunk scored at least as high
InsertDesc(c, s) ==
    LET ahead == Cardinality({i \in 1..Len(s) : s[i].rerank_score >= c.rerank_score})
    IN  SubSeq(s, 1, ahead) \o <<c>> \o SubSeq(s, ahead + 1, Len(s))

\* sorted(chunks, key=rerank_score, reverse=True): stable
RECURSIVE SortDesc(_)
SortDesc(chunks) ==
    IF chunks = <<>> THEN <<>>
    ELSE InsertDesc(chunks[Len(chunks)], SortDesc(SubSeq(chunks, 1, Len(chunks) - 1)))

\* for chunk, score in zip(chunks, scores): chunk["rerank_score"] = score
WithScores(chunks, scores) ==
    [i \in 1..Len(chunks) |->
        IF i <= Len(scores) THEN [chunks[i] EXCEPT !.rerank_score = scores[i]]
        ELSE chunks[i]]

\* a remote tier that returns the documents it sent, c["text"][:512], as the texts
rerank_with_cohere_docs(chunks, co) ==
    IF co.t # "hits" THEN <<>>
    ELSE [h \in 1..Len(co.hits) |->
            [chunks[co.hits[h].index] EXCEPT !.rerank_score = co.hits[h].score,
                                             !.text = Truncate(@, 512)]]

\* _rerank_with_cohere: <<>> stands for None (no key, or the call raised)
rerank_with_cohere(chunks, co) ==
    IF co.t # "hits" THEN <<>>
    ELSE [h \in 1..Len(co.hits) |->
            [chunks[co.hits[h].index] EXCEPT !.rerank_score = co.hits[h].score]]

\* a cross-encoder tier that returns the whole sorted list
rerank_with_cross_encoder_unsliced(chunks, ce, top_k) ==
    IF ce.t # "scores" THEN <<>>
    ELSE SortDesc(WithScores(chunks, ce.scores))

\* _rerank_with_cross_encoder: <<>> stands for None (no model, or inference raised)
rerank_with_cross_encoder(chunks, ce, top_k) ==
    IF ce.t # "scores" THEN <<>>
    ELSE Take(SortDesc(WithScores(chunks, ce.scores)), top_k)

\* a keyword tier that scores only the chunks no tier has scored before
rerank_with_keywords_unscored(chunks, kw, top_k) ==
    Take(SortDesc([i \in 1..Len(chunks) |->
                      IF chunks[i].rerank_score = 0
                      THEN [chunks[i] EXCEPT !.rerank_score = kw[i]]
                      ELSE chunks[i]]), top_k)

\* the keyword tier of rerank_chunks
rerank_with_keywords(chunks, kw, top_k) ==
    Take(SortDesc(WithScores(chunks, kw)), top_k)

\* rerank_chunks with a remote tier whose exception is not caught
rerank_chunks_uncaught(chunks, env, top_k) ==
    IF chunks = <<>> THEN [raised |-> FALSE, chunks |-> <<>>]
    ELSE IF env.cohere.t = "raise" THEN [raised |-> TRUE, chunks |-> <<>>]
    ELSE IF rerank_with_cohere(chunks, env.cohere) # <<>>
    THEN [raised |-> FALSE, chunks |-> rerank_with_cohere(chunks, env.cohere)]
    ELSE [raised |-> FALSE, chunks |-> rerank_with_keywords(chunks, env.kw, top_k)]

\* rerank_chunks: [raised, chunks]; it raises only when the thread that loads the
\* cross-encoder cannot be started (asyncio.to_thread outside the try)
rerank_chunks(chunks, env, top_k) ==
    IF chunks = <<>> THEN [raised |-> FALSE, chunks |-> <<>>]
    ELSE IF rerank_with_cohere(chunks, env.cohere) # <<>>
    THEN [raised |-> FALSE, chunks |-> rerank_with_cohere(chunks, env.cohere)]
    ELSE IF env.ce.t = "thread_error" THEN [raised |-> TRUE, chunks |-> <<>>]
    ELSE IF rerank_with_cross_encoder(chunks, env.ce, top_k) # <<>>
    THEN [raised |-> FALSE, chunks |-> rerank_with_cross_encoder(chunks, env.ce, top_k)]
    ELSE [raised |-> FALSE, chunks |-> rerank_with_keywords(chunks, env.kw, top_k)]

-----------------------------------------------------------------------------
(* Documents: tools/researcher.py *)

AllFields == {"synthesis", "catalysts", "key_metrics", "risk_factors", "sentiment",
              "confidence_overall", "sources", "headlines", "ticker", "exchange",
              "research_timestamp", "pipeline"}

\* the keys _step_synthesize attaches to the parsed object
AttachedFields == {"sources", "headlines", "ticker", "exchange",
                   "research_timestamp", "pipeline"}

NoSources == [k \in {} |-> None]

\* _fallback(ticker, exchange) at time t
Fallback(q, t) ==
    [keys |-> AllFields, cites |-> {}, catalysts |-> "list", catalyst_count |-> 2,
     catalyst_source_ids |-> {}, sentiment |-> "neutral", confidence_overall |-> 45,
     sources |-> NoSources, headlines |-> <<>>, ticker |-> q.ticker,
     exchange |-> q.exchange, research_timestamp |-> t, pipeline |-> "fallback"]

\* llm_client.chat_completion: it catches every provider error and returns "" then
chat_completion(l) == IF l.t = "error" THEN [t |-> "empty"] ELSE l.raw

\* json.loads(raw) succeeds
JsonOk(raw) == raw.t = "json"

\* result["sources"] = ... succeeds: only a JSON object takes item assignment by key
IsObject(v) == v.k = "object"

\* headlines: the non-empty titles of the first five chunks
RECURSIVE Titles(_)
Titles(chunks) ==
    IF chunks = <<>> THEN <<>>
    ELSE (IF chunks[1].source_title # "" THEN <<chunks[1].source_title>> ELSE <<>>)
         \o Titles(Tail(chunks))

\* _step_synthesize: [raised, doc]
step_synthesize(q, top_chunks, l, t) ==
    LET raw == chat_completion(l)
    IN  IF ~JsonOk(raw) THEN [raised |-> FALSE, doc |-> Fallback(q, t)]
        ELSE IF ~IsObject(raw.v) THEN [raised |-> TRUE, doc |-> None]
        ELSE [raised |-> FALSE,
              doc |-> [keys |-> raw.v.keys \cup AttachedFields,
                       cites |-> raw.v.cites,
                       catalysts |-> raw.v.catalysts,
                       catalyst_count |-> raw.v.catalyst_count,
                       catalyst_source_ids |-> raw.v.catalyst_source_ids,
                       sentiment |-> raw.v.sentiment,
                       confidence_overall |-> raw.v.confidence_overall,
                       sources |-> build_citation_map(top_chunks),
                       headlines |-> Titles(Take(top_chunks, HEADLINES)),
                       ticker |-> q.ticker, exchange |-> q.exchange,
                       research_timestamp |-> t, pipeline |-> "production_v2"]]

\* len(result.get("catalysts", [])) raises: the key is there and its value has no len()
CatalystsUnsized(doc) == "catalysts" \in doc.keys /\ doc.catalysts = "null"

\* number of catalysts reported in the complete event
CatalystsFound(doc) == IF "catalysts" \in doc.keys THEN doc.catalyst_count ELSE 0

UsExchanges == {"NYSE", "NASDAQ"}

\* the results of a list of results that multi_query_search keeps, seen being the
\* urls met before
RECURSIVE UniqueByUrl(_, _)
UniqueByUrl(results, seen) ==
    IF results = <<>> THEN <<>>
    ELSE IF Head(results).url # "" /\ Head(results).url \notin seen
    THEN <<Head(results)>> \o UniqueByUrl(Tail(results), seen \cup {Head(results).url})
    ELSE UniqueByUrl(Tail(results), seen)

\* multi_query_search: results are the result lists of the queries, one after the
\* other
multi_query_search(results) == UniqueByUrl(results, {})

\* _step_collect_sources: [raised, sources, stats]; c.finnhub and c.edgar are what
\* these providers return, c.ddg what the web searches return, query after query,
\* c.ddg_raises an exception out of multi_query_search, c.timeout the expiry of the
\* 25 s deadline
step_collect_sources(q, c) ==
    LET us == q.exchange \in UsExchanges
        finnhub == IF c.timeout \/ ~us THEN <<>> ELSE c.finnhub
        ddg == IF c.timeout THEN <<>> ELSE multi_query_search(c.ddg)
        edgar == IF c.timeout \/ ~us THEN <<>> ELSE c.edgar
        all == finnhub \o ddg \o edgar
    IN  IF c.ddg_raises /\ ~c.timeout
        THEN [raised |-> TRUE, sources |-> <<>>, stats |-> None]
        ELSE [raised |-> FALSE, sources |-> all,
              stats |-> [finnhub |-> Len(finnhub), duckduckgo |-> Len(ddg),
                         sec_edgar |-> Len(edgar), total |-> Len(all)]]

\* a test that lets every list through
NoneFoundNever(list) == FALSE

\* the tests "if not sources", "if not chunks", "if not top_chunks"
NoneFound(list) == list = <<>>

\* a test that takes every lookup for a miss
IsHitNever(cached) == FALSE

\* the test "if cached"
IsHit(cached) == cached # None

-----------------------------------------------------------------------------
(* tools/cache.py *)

\* cache_key = f"{ticker}_{exchange}"
CacheKey(q) == q.ticker \o "_" \o q.exchange

\* CacheLayer._make_key with prefix "stk_research"
MakeKey(key) == "stk_research:" \o key

\* json.dumps(value, default=str) and json.loads: the serialized text of a document
\* whose mappings all have string keys, and the document read back from it
JsonDumps(doc) == [json |-> doc]
JsonLoads(text) == text.json

Live(entry, t) == entry # None /\ t < entry.expires_at

\* self._redis.get(full_key) of a store that answers
RedisGet(store, fk, t) == IF Live(store[fk], t) THEN store[fk].value ELSE None

\* self._redis.delete(full_key) inside try/except: store is the shared store of a
\* cache whose self._redis is set when up; fail: the call raises, which is swallowed
RedisDelete(up, store, fk, fail) ==
    IF up /\ ~fail THEN [store EXCEPT ![fk] = None] ELSE store

\* a pop that empties the whole map
MemoryPopAll(mem, fk) == [k \in DOMAIN mem |-> None]

\* self._memory.pop(full_key, None)
MemoryPop(mem, fk) == [mem EXCEPT ![fk] = None]

\* CacheLayer.invalidate on a cache [up, redis, memory]
invalidate(cache, fk, fail) ==
    [up |-> cache.up, redis |-> RedisDelete(cache.up, cache.redis, fk, fail),
     memory |-> MemoryPop(cache.memory, fk)]

\* CacheLayer.get on a cache [up, redis, memory] at time t; fail: the call to the
\* shared store raises. None is a miss
get(cache, fk, fail, t) ==
    IF cache.up /\ ~fail /\ RedisGet(cache.redis, fk, t) # None
    THEN JsonLoads(RedisGet(cache.redis, fk, t))
    ELSE IF Live(cache.memory[fk], t) THEN cache.memory[fk].value
    ELSE None

\* an entry that has expired as soon as it is stored
EntryNoTtl(value, t) == [value |-> value, expires_at |-> t]

\* what CacheLayer.set stores
Entry(value, t) == [value |-> value, expires_at |-> t + TtlTicks]

-----------------------------------------------------------------------------
(* State *)

Runs == {1, 2}
Caches == {"A", "B"}
Requests == {[ticker |-> "NVDA", exchange |-> "NASDAQ"]}
FullKeys == {MakeKey(CacheKey(q)) : q \in Requests}
NoReq == [ticker |-> "", exchange |-> ""]

InitLoc == [cached |-> None, sources |-> <<>>, stats |-> None, enriched |-> <<>>,
            chunks |-> <<>>, top_chunks |-> <<>>, result |-> None]

\* what a call remembers of the call before it
NoPrev == [mode |-> "none", wrote |-> FALSE, endAt |-> 0]

InitHist == [startAt |-> 0, kept |-> {}, held |-> None, evicted |-> {}, clean |-> FALSE,
             hit |-> FALSE, raisedAt |-> "none", emptyAt |-> "none",
             storeFail |-> FALSE, wrote |-> FALSE, setAt |-> 0, endAt |-> 0,
             llm |-> "none", prev |-> NoPrev]

NoOut == [kind |-> "none", doc |-> None]

Stage(name) == [kind |-> "stage", name |-> name, n |-> 0, result |-> None]
CacheSet == [kind |-> "cache_set", name |-> "cache_set", n |-> 0, result |-> None]
Event(status, n, result) == [kind |-> "event", name |-> status, n |-> n, result |-> result]

FK(r) == MakeKey(CacheKey(req[r]))

\* the document a lookup at time t finds when no store call fails and no thread
\* interferes
Held(c, fk, t) ==
    IF redisUp[c] /\ Live(redis[c][fk], t) THEN JsonLoads(redis[c][fk].value)
    ELSE IF Live(memory[c][fk], t) THEN memory[c][fk].value
    ELSE None

\* the documents the cache keeps under a key, served or not
Kept(c, fk) ==
    (IF redis[c][fk] # None THEN {JsonLoads(redis[c][fk].value)} ELSE {})
    \cup (IF memory[c][fk] # None THEN {memory[c][fk].value} ELSE {})

Running(r) == pc[r] \notin {"idle", "done"}

InitCommon ==
    /\ now = 0
    /\ redisUp \in {[c \in Caches |-> b] : b \in BOOLEAN}
    /\ redis = [c \in Caches |-> [fk \in FullKeys |-> None]]
    /\ memory = [c \in Caches |-> [fk \in FullKeys |-> None]]
    /\ mode = [r \in Runs |-> "none"]
    /\ req = [r \in Runs |-> NoReq]
    /\ pc = [r \in Runs |-> "idle"]
    /\ loc = [r \in Runs |-> InitLoc]
    /\ log = [r \in Runs |-> <<>>]
    /\ out = [r \in Runs |-> NoOut]
    /\ hist = [r \in Runs |-> InitHist]
    /\ dpc = "idle"
    /\ dkey = [cache |-> "A", key |-> "", pre |-> {}]
    /\ dhist = [evicted |-> {}, since |-> FALSE, count |-> 0, inflight |-> {},
                lastSet |-> 0]

NoOracle == [free |-> TRUE]

\* no call of fetch_all_parallel is followed task by task
NoBatch == [sources |-> <<>>, orig |-> <<>>, at |-> <<>>, permits |-> MAX_CONCURRENT,
            returned |-> FALSE, track |-> FALSE, tried |-> <<>>, order |-> <<>>,
            result |-> <<>>]

\* no pass through tools/rag_pipeline.py is followed
NoRag == [pc |-> "none", sources |-> <<>>, chunks |-> <<>>, top |-> <<>>,
          citations |-> <<>>, max_chars |-> 0, context |-> <<>>]

\* the Reranker of a process in which rerank_chunks has not been called
NoRerank == [loaded |-> FALSE, encoder |-> "none", built |-> 0, call |-> <<>>]

Init ==
    /\ InitCommon
    /\ cacheOf = [r \in Runs |-> "A"]
    /\ oracle = NoOracle
    /\ batch = NoBatch
    /\ rk = NoRerank
    /\ rag = NoRag

-----------------------------------------------------------------------------
(* How a call ends *)

\* the call of run r is over: it hands over doc (kind "returned" or "streamed") or an
\* exception (kind "raised"), after appending entries to its log; h is its bookkeeping
Finish(r, kind, doc, entries, h) ==
    /\ pc' = [pc EXCEPT ![r] = "done"]
    /\ out' = [out EXCEPT ![r] = [kind |-> kind, doc |-> doc]]
    /\ log' = [log EXCEPT ![r] = log[r] \o entries]
    /\ loc' = [loc EXCEPT ![r] = InitLoc]
    /\ hist' = [hist EXCEPT ![r] = [h EXCEPT !.endAt = now]]
    /\ dhist' = [dhist EXCEPT !.since = FALSE,
                              !.lastSet = IF h.wrote THEN r ELSE @]

\* deep_research_async: "except Exception" and the three early returns
ReturnFallback(r, entries, h) ==
    Finish(r, "returned", Fallback(req[r], now), entries, h)

\* stream_research: an error event carrying the fallback document ends the stream
YieldError(r, entries, h) ==
    Finish(r, "streamed", Fallback(req[r], now),
           entries \o <<Event("error", 0, Fallback(req[r], now))>>, h)

\* run r goes on at label with locals l, having appended entries to its log
Continue(r, label, l, entries, h) ==
    /\ pc' = [pc EXCEPT ![r] = label]
    /\ loc' = [loc EXCEPT ![r] = l]
    /\ log' = [log EXCEPT ![r] = log[r] \o entries]
    /\ hist' = [hist EXCEPT ![r] = h]
    /\ UNCHANGED <<out, dhist>>

cacheVars == <<redisUp, redis, memory>>
delVars == <<dpc, dkey>>
fixedVars == <<cacheOf, oracle, batch, rk, rag>>

-----------------------------------------------------------------------------
(* A call arrives; CacheLayer.get *)

\* POST /research (m = "oneshot") or GET /research/stream (m = "stream") for q
StartRun(r, m, q) ==
    /\ pc[r] = "idle"
    /\ now < MaxTime
    /\ now' = now + 1
    /\ mode' = [p \in Runs |-> IF p = r THEN m ELSE IF Running(p) THEN mode[p] ELSE "none"]
    /\ req' = [p \in Runs |-> IF p = r THEN q ELSE IF Running(p) THEN req[p] ELSE NoReq]
    /\ pc' = [pc EXCEPT ![r] = "get_redis"]
    /\ hist' = [p \in Runs |->
                  IF p = r
                  THEN [InitHist EXCEPT
                          !.startAt = now + 1,
                          !.kept = Kept(cacheOf[r], MakeKey(CacheKey(q))),
                          !.held = Held(cacheOf[r], MakeKey(CacheKey(q)), now + 1),
                          !.evicted = dhist.evicted,
                          !.clean = ~dhist.since /\ dpc = "idle",
                          !.prev = IF r - 1 \in Runs
                                   THEN [mode |-> mode[r - 1],
                                         wrote |-> hist[r - 1].wrote,
                                         endAt |-> hist[r - 1].endAt]
                                   ELSE NoPrev]
                  ELSE IF Running(p) THEN hist[p] ELSE InitHist]
    /\ log' = [p \in Runs |-> IF Running(p) THEN log[p] ELSE <<>>]
    /\ UNCHANGED <<cacheVars, delVars, fixedVars, loc, out, dhist>>

\* calls arrive one after the other
StartNext(r, m, q) ==
    /\ \A p \in Runs : ~Running(p) /\ (p < r => pc[p] = "done")
    /\ StartRun(r, m, q)

\* get, lines 45-52: the shared store is asked first; fail: the call raises
GetRedis(r, fail) ==
    /\ pc[r] = "get_redis"
    /\ LET c == cacheOf[r]
           raw == RedisGet(redis[c], FK(r), now)
           h == [hist[r] EXCEPT !.storeFail = @ \/ (redisUp[c] /\ fail)]
       IN  IF redisUp[c] /\ ~fail /\ raw # None
           THEN Continue(r, "got", [loc[r] EXCEPT !.cached = JsonLoads(raw)], <<>>, h)
           ELSE Continue(r, "get_in", loc[r], <<>>, h)
    /\ UNCHANGED <<now, cacheVars, delVars, fixedVars, mode, req>>

\* get, line 55: if full_key in self._memory
GetIn(r) ==
    /\ pc[r] = "get_in"
    /\ IF memory[cacheOf[r]][FK(r)] = None
       THEN Continue(r, "got", [loc[r] EXCEPT !.cached = None], <<>>, hist[r])
       ELSE Continue(r, "get_read", loc[r], <<>>, hist[r])
    /\ UNCHANGED <<now, cacheVars, delVars, fixedVars, mode, req>>

\* get, lines 56-59: the entry is read (KeyError when another thread has removed it
\* since the membership test) and served when it has not expired
GetRead(r) ==
    /\ pc[r] = "get_read"
    /\ LET e == memory[cacheOf[r]][FK(r)]
       IN  IF e = None
           THEN Continue(r, "get_error", loc[r], <<>>, [hist[r] EXCEPT !.raisedAt = "idle"])
           ELSE IF now < e.expires_at
           THEN Continue(r, "got", [loc[r] EXCEPT !.cached = e.value], <<>>, hist[r])
           ELSE Continue(r, "get_del", loc[r], <<>>, hist[r])
    /\ UNCHANGED <<now, cacheVars, delVars, fixedVars, mode, req>>

\* get, lines 60-64: the expired entry is deleted (KeyError when it is gone): a miss
GetDel(r) ==
    /\ pc[r] = "get_del"
    /\ LET c == cacheOf[r]
       IN  IF memory[c][FK(r)] = None
           THEN /\ Continue(r, "get_error", loc[r], <<>>,
                            [hist[r] EXCEPT !.raisedAt = "idle"])
                /\ UNCHANGED memory
           ELSE /\ Continue(r, "got", [loc[r] EXCEPT !.cached = None], <<>>, hist[r])
                /\ memory' = [memory EXCEPT ![c][FK(r)] = None]
    /\ UNCHANGED <<now, redisUp, redis, delVars, fixedVars, mode, req>>

\* CacheLayer.set: the shared store when it takes the write, else the in-process map
CacheSetTo(c, fk, value, fail) ==
    IF redisUp[c] /\ ~fail
    THEN /\ redis' = [redis EXCEPT ![c][fk] = Entry(JsonDumps(value), now)]
         /\ UNCHANGED <<redisUp, memory>>
    ELSE /\ memory' = [memory EXCEPT ![c][fk] = Entry(value, now)]
         /\ UNCHANGED <<redisUp, redis>>

-----------------------------------------------------------------------------
(* ProductionResearchAgent.deep_research_async *)

frame == <<now, cacheVars, delVars, fixedVars, mode, req>>

\* lines 262-265: the lookup is over; a hit is returned as it is
O_AfterLookup(r) ==
    /\ pc[r] = "got" /\ mode[r] = "oneshot"
    /\ IF IsHit(loc[r].cached)
       THEN Finish(r, "returned", loc[r].cached, <<>>, [hist[r] EXCEPT !.hit = TRUE])
       ELSE Continue(r, "collect", loc[r], <<>>, hist[r])
    /\ UNCHANGED frame

\* line 262 stands before the try: an exception of the lookup leaves the coroutine
O_LookupError(r) ==
    /\ pc[r] = "get_error" /\ mode[r] = "oneshot"
    /\ Finish(r, "raised", None, <<>>, hist[r])
    /\ UNCHANGED frame

\* lines 271-274
O_Collect(r, cin) ==
    /\ pc[r] = "collect" /\ mode[r] = "oneshot"
    /\ LET res == step_collect_sources(req[r], cin)
           e == <<Stage("collecting")>>
       IN  IF res.raised
           THEN ReturnFallback(r, e, [hist[r] EXCEPT !.raisedAt = "collecting"])
           ELSE IF NoneFound(res.sources)
           THEN ReturnFallback(r, e, [hist[r] EXCEPT !.emptyAt = "collecting"])
           ELSE Continue(r, "fetch", [loc[r] EXCEPT !.sources = res.sources,
                                                   !.stats = res.stats], e, hist[r])
    /\ UNCHANGED frame

\* line 277; fin.raises: an exception out of fetch_all_parallel
O_Fetch(r, fin) ==
    /\ pc[r] = "fetch" /\ mode[r] = "oneshot"
    /\ LET e == <<Stage("fetching")>>
       IN  IF fin.raises
           THEN ReturnFallback(r, e, [hist[r] EXCEPT !.raisedAt = "fetching"])
           ELSE Continue(r, "chunk",
                         [loc[r] EXCEPT !.enriched =
                             fetch_all_parallel(loc[r].sources, fin.os)], e, hist[r])
    /\ UNCHANGED frame

\* lines 280-283
O_Chunk(r) ==
    /\ pc[r] = "chunk" /\ mode[r] = "oneshot"
    /\ LET chunks == build_chunks_from_sources(loc[r].enriched)
           e == <<Stage("chunking")>>
       IN  IF NoneFound(chunks)
           THEN ReturnFallback(r, e, [hist[r] EXCEPT !.emptyAt = "chunking"])
           ELSE Continue(r, "rerank", [loc[r] EXCEPT !.chunks = chunks], e, hist[r])
    /\ UNCHANGED frame

\* lines 286-289
O_Rerank(r, rin) ==
    /\ pc[r] = "rerank" /\ mode[r] = "oneshot"
    /\ LET res == rerank_chunks(loc[r].chunks, rin, TOP_K)
           e == <<Stage("reranking")>>
       IN  IF res.raised
           THEN ReturnFallback(r, e, [hist[r] EXCEPT !.raisedAt = "reranking"])
           ELSE IF NoneFound(res.chunks)
           THEN ReturnFallback(r, e, [hist[r] EXCEPT !.emptyAt = "reranking"])
           ELSE Continue(r, "synth", [loc[r] EXCEPT !.top_chunks = res.chunks], e, hist[r])
    /\ UNCHANGED frame

\* lines 292-297: synthesize, write the cache, return
O_Synth(r, lin, fail) ==
    /\ pc[r] = "synth" /\ mode[r] = "oneshot"
    /\ LET res == step_synthesize(req[r], loc[r].top_chunks, lin, now)
           e == <<Stage("synthesizing")>>
           h == [hist[r] EXCEPT !.llm = lin.name]
           c == cacheOf[r]
       IN  IF res.raised
           THEN /\ ReturnFallback(r, e, [h EXCEPT !.raisedAt = "synthesizing"])
                /\ UNCHANGED cacheVars
           ELSE /\ CacheSetTo(c, FK(r), res.doc, fail)
                /\ Finish(r, "returned", res.doc, e \o <<CacheSet>>,
                          [h EXCEPT !.wrote = TRUE, !.setAt = now,
                                    !.storeFail = @ \/ (redisUp[c] /\ fail)])
    /\ UNCHANGED <<now, delVars, fixedVars, mode, req>>

-----------------------------------------------------------------------------
(* ProductionResearchAgent.stream_research: one action from each yield to the next *)

\* lines 360-366
S_AfterLookup(r) ==
    /\ pc[r] = "got" /\ mode[r] = "stream"
    /\ IF IsHit(loc[r].cached)
       THEN Continue(r, "s_hit", loc[r], <<Event("cache_hit", 0, None)>>,
                     [hist[r] EXCEPT !.hit = TRUE])
       ELSE Continue(r, "s_starting", loc[r], <<Event("starting", 0, None)>>, hist[r])
    /\ UNCHANGED frame

\* line 360 stands inside the try: lines 415-421
S_LookupError(r) ==
    /\ pc[r] = "get_error" /\ mode[r] = "stream"
    /\ YieldError(r, <<>>, hist[r])
    /\ UNCHANGED frame

\* lines 363-364
S_HitComplete(r) ==
    /\ pc[r] = "s_hit" /\ mode[r] = "stream"
    /\ Finish(r, "streamed", loc[r].cached,
              <<Event("complete", 0, loc[r].cached)>>, hist[r])
    /\ UNCHANGED frame

\* line 369
S_Searching(r) ==
    /\ pc[r] = "s_starting" /\ mode[r] = "stream"
    /\ Continue(r, "collect", loc[r], <<Event("searching", 0, None)>>, hist[r])
    /\ UNCHANGED frame

\* lines 370-375
S_Collect(r, cin) ==
    /\ pc[r] = "collect" /\ mode[r] = "stream"
    /\ LET res == step_collect_sources(req[r], cin)
           e == <<Stage("collecting")>>
       IN  IF res.raised
           THEN YieldError(r, e, [hist[r] EXCEPT !.raisedAt = "collecting"])
           ELSE Continue(r, "s_search_done",
                         [loc[r] EXCEPT !.sources = res.sources, !.stats = res.stats],
                         e \o <<Event("search_done", res.stats.total, None)>>, hist[r])
    /\ UNCHANGED frame

\* lines 377-383
S_AfterSearch(r) ==
    /\ pc[r] = "s_search_done" /\ mode[r] = "stream"
    /\ IF NoneFound(loc[r].sources)
       THEN YieldError(r, <<>>, [hist[r] EXCEPT !.emptyAt = "collecting"])
       ELSE Continue(r, "fetch", loc[r], <<Event("fetching", 0, None)>>, hist[r])
    /\ UNCHANGED frame

\* sum(1 for s in enriched if s.get("fetch_status") in ("success", "pre_filled"))
Fetched(enriched) ==
    Cardinality({i \in 1..Len(enriched) :
                    enriched[i].fetch_status \in {"success", "pre_filled"}})

\* lines 384-386
S_Fetch(r, fin) ==
    /\ pc[r] = "fetch" /\ mode[r] = "stream"
    /\ LET e == <<Stage("fetching")>>
           enriched == fetch_all_parallel(loc[r].sources, fin.os)
       IN  IF fin.raises
           THEN YieldError(r, e, [hist[r] EXCEPT !.raisedAt = "fetching"])
           ELSE Continue(r, "s_fetch_done", [loc[r] EXCEPT !.enriched = enriched],
                         e \o <<Event("fetch_done", Fetched(enriched), None)>>, hist[r])
    /\ UNCHANGED frame

\* line 389
S_Chunking(r) ==
    /\ pc[r] = "s_fetch_done" /\ mode[r] = "stream"
    /\ Continue(r, "chunk", loc[r], <<Event("chunking", 0, None)>>, hist[r])
    /\ UNCHANGED frame

\* lines 390-391
S_Chunk(r) ==
    /\ pc[r] = "chunk" /\ mode[r] = "stream"
    /\ LET chunks == build_chunks_from_sources(loc[r].enriched)
       IN  Continue(r, "s_chunk_done", [loc[r] EXCEPT !.chunks = chunks],
                    <<Stage("chunking"), Event("chunk_done", Len(chunks), None)>>,
                    hist[r])
    /\ UNCHANGED frame

\* lines 393-399
S_AfterChunk(r) ==
    /\ pc[r] = "s_chunk_done" /\ mode[r] = "stream"
    /\ IF NoneFound(loc[r].chunks)
       THEN YieldError(r, <<>>, [hist[r] EXCEPT !.emptyAt = "chunking"])
       ELSE Continue(r, "rerank", loc[r], <<Event("reranking", 0, None)>>, hist[r])
    /\ UNCHANGED frame

\* lines 400-401: the generator does not test top_chunks
S_Rerank(r, rin) ==
    /\ pc[r] = "rerank" /\ mode[r] = "stream"
    /\ LET res == rerank_chunks(loc[r].chunks, rin, TOP_K)
           e == <<Stage("reranking")>>
       IN  IF res.raised
           THEN YieldError(r, e, [hist[r] EXCEPT !.raisedAt = "reranking"])
           ELSE Continue(r, "s_rerank_done", [loc[r] EXCEPT !.top_chunks = res.chunks],
                         e \o <<Event("rerank_done", Len(res.chunks), None)>>,
                         [hist[r] EXCEPT !.emptyAt =
                             IF NoneFound(res.chunks) THEN "reranking" ELSE @])
    /\ UNCHANGED frame

\* line 404
S_Synthesizing(r) ==
    /\ pc[r] = "s_rerank_done" /\ mode[r] = "stream"
    /\ Continue(r, "synth", loc[r], <<Event("synthesizing", 0, None)>>, hist[r])
    /\ UNCHANGED frame

\* lines 405-421: synthesize, write the cache, build and yield the complete event
S_Synth(r, lin, fail) ==
    /\ pc[r] = "synth" /\ mode[r] = "stream"
    /\ LET res == step_synthesize(req[r], loc[r].top_chunks, lin, now)
           e == <<Stage("synthesizing")>>
           h == [hist[r] EXCEPT !.llm = lin.name]
           c == cacheOf[r]
           hw == [h EXCEPT !.wrote = TRUE, !.setAt = now,
                           !.storeFail = @ \/ (redisUp[c] /\ fail)]
       IN  IF res.raised
           THEN /\ YieldError(r, e, [h EXCEPT !.raisedAt = "synthesizing"])
                /\ UNCHANGED cacheVars
           ELSE /\ CacheSetTo(c, FK(r), res.doc, fail)
                /\ IF CatalystsUnsized(res.doc)
                   THEN YieldError(r, e \o <<CacheSet>>,
                                   [hw EXCEPT !.raisedAt = "complete"])
                   ELSE Finish(r, "streamed", res.doc,
                               e \o <<CacheSet,
                                      Event("complete", CatalystsFound(res.doc), res.doc)>>,
                               hw)
    /\ UNCHANGED <<now, delVars, fixedVars, mode, req>>

-----------------------------------------------------------------------------
(* DELETE /research/cache: the handler runs in a worker thread *)

\* invalidate, lines 85-90: the shared store is asked to delete; fail: the call
\* raises and the exception is swallowed. At most MaxDeletes handlers run, none once
\* the last call is over
DeleteRedis(c, q, fail) ==
    /\ dpc = "idle"
    /\ \E r \in Runs : pc[r] # "done"
    /\ dhist.count < MaxDeletes
    /\ dpc' = "pop"
    /\ dkey' = [cache |-> c, key |-> MakeKey(CacheKey(q)),
                pre |-> Kept(c, MakeKey(CacheKey(q)))]
    /\ redis' = [redis EXCEPT ![c] = RedisDelete(redisUp[c], @, MakeKey(CacheKey(q)), fail)]
    /\ hist' = [r \in Runs |-> IF Running(r) THEN [hist[r] EXCEPT !.clean = FALSE]
                                ELSE hist[r]]
    /\ dhist' = [dhist EXCEPT !.since = TRUE, !.count = @ + 1]
    /\ UNCHANGED <<now, redisUp, memory, fixedVars, mode, req, pc, loc, log, out>>

\* invalidate, line 91, and the handler returns
DeletePop ==
    /\ dpc = "pop"
    /\ dpc' = "idle"
    /\ memory' = [memory EXCEPT ![dkey.cache] = MemoryPop(@, dkey.key)]
    /\ dkey' = [dkey EXCEPT !.pre = {}]
    /\ hist' = [r \in Runs |-> IF Running(r) THEN [hist[r] EXCEPT !.clean = FALSE]
                                ELSE hist[r]]
    /\ dhist' = [dhist EXCEPT !.evicted = @ \cup dkey.pre, !.since = TRUE,
                              !.inflight = @ \cup {r \in Runs : Running(r)}]
    /\ UNCHANGED <<now, redisUp, redis, fixedVars, mode, req, pc, loc, log, out>>

\* time passes between two calls (a call reads the clock of its arrival), up to MaxTime
Tick ==
    /\ \A r \in Runs : ~Running(r)
    /\ \E r \in Runs : pc[r] = "idle"
    /\ now < MaxTime
    /\ now' = now + 1
    /\ UNCHANGED <<cacheVars, delVars, fixedVars, mode, req, pc, loc, log, out, hist, dhist>>

-----------------------------------------------------------------------------
(* What the outside world answers *)

Modes == {"oneshot", "stream"}

\* a Finnhub article with a long summary and a web result with a short snippet
SrcF == [url |-> "https://f", title |-> "F", snippet |-> 500, content |-> 500,
         source |-> "finnhub", timestamp |-> "1", fetch_status |-> ""]
SrcB == [url |-> "https://b", title |-> "B", snippet |-> 8, content |-> 8,
         source |-> "duckduckgo", timestamp |-> "", fetch_status |-> ""]
\* the web result for the page of the Finnhub article
SrcFweb == [url |-> "https://f", title |-> "F on the web", snippet |-> 8, content |-> 8,
            source |-> "duckduckgo", timestamp |-> "", fetch_status |-> ""]

\* late: the providers still in flight when the 25 s deadline expires (the deadline
\* expires when there is one); the lists of the others are what they have returned
CollectInputs ==
    {[finnhub |-> f, ddg |-> d, edgar |-> <<>>, timeout |-> FALSE, ddg_raises |-> FALSE,
      late |-> {}] : f \in {<<>>, <<SrcF>>}, d \in {<<>>, <<SrcB>>}}
    \cup {[finnhub |-> <<SrcF>>, ddg |-> <<SrcB>>, edgar |-> <<>>, timeout |-> t,
           ddg_raises |-> ~t, late |-> IF t THEN {"duckduckgo"} ELSE {}] :
              t \in BOOLEAN}
    \cup {[finnhub |-> <<SrcF>>, ddg |-> <<SrcB, SrcFweb, SrcB>>, edgar |-> <<>>,
           timeout |-> FALSE, ddg_raises |-> FALSE, late |-> {}]}

\* per source: the direct fetch succeeds; only the proxy does; both come back short;
\* both time out
FetchOutcomes ==
    {[direct |-> Text(300), jina |-> NoText],
     [direct |-> NoText, jina |-> Text(300)],
     [direct |-> Text(10), jina |-> Text(10)],
     [direct |-> NoText, jina |-> NoText]}

\* what the fetches answer: the gather raises, or every source meets the same outcome
FetchShapes ==
    {[raises |-> FALSE, o |-> o] : o \in FetchOutcomes}
    \cup {[raises |-> TRUE, o |-> [direct |-> NoText, jina |-> NoText]]}

FetchInput(f, n) == [raises |-> f.raises, os |-> [i \in 1..n |-> f.o]]

NoKey == [t |-> "nokey", hits |-> <<>>]
CohereRaises == [t |-> "raise", hits |-> <<>>]
\* the remote API ranks the chunks in reverse order
CohereHits(n) ==
    [t |-> "hits",
     hits |-> [h \in 1..n |-> [index |-> n + 1 - h, score |-> 9000 - 1000 * h]]]
NoModel == [t |-> "nomodel", scores |-> <<>>]
PredictRaises == [t |-> "raise", scores |-> <<>>]
ThreadError == [t |-> "thread_error", scores |-> <<>>]
Rising(n) == [i \in 1..n |-> 1000 * i]
Flat(n) == [i \in 1..n |-> 5000]

\* what the three rerank tiers answer, whatever the number of chunks
RerankShapes ==
    {[cohere |-> "hits", ce |-> "nomodel", kw |-> "flat"]}
    \cup {[cohere |-> co, ce |-> "scores", kw |-> "flat"] : co \in {"nokey", "raise"}}
    \cup {[cohere |-> "nokey", ce |-> x, kw |-> k] :
            x \in {"nomodel", "raise"}, k \in {"rising", "flat"}}
    \cup {[cohere |-> "nokey", ce |-> "thread_error", kw |-> "flat"]}
    \cup {[cohere |-> "raise", ce |-> "nomodel", kw |-> "rising"],
          [cohere |-> "raise", ce |-> "raise", kw |-> "flat"]}

RerankInput(s, n) ==
    [cohere |-> CASE s.cohere = "hits" -> CohereHits(n)
                  [] s.cohere = "raise" -> CohereRaises
                  [] OTHER -> NoKey,
     ce |-> CASE s.ce = "scores" -> [t |-> "scores", scores |-> Rising(n)]
              [] s.ce = "raise" -> PredictRaises
              [] s.ce = "thread_error" -> ThreadError
              [] OTHER -> NoModel,
     kw |-> IF s.kw = "rising" THEN Rising(n) ELSE Flat(n)]

LlmFields == AllFields \ AttachedFields

\* a JSON object: its keys, the [N] of its synthesis, the shape of its catalysts
\* ("list", "null", "absent"), their number, the union of their source_ids, and its
\* sentiment ("" when the key is absent)
ObjectOf(keys, cites, catalysts, count, ids, sentiment) ==
    [t |-> "json",
     v |-> [k |-> "object", keys |-> keys, cites |-> cites, catalysts |-> catalysts,
            catalyst_count |-> count, catalyst_source_ids |-> ids,
            sentiment |-> sentiment, confidence_overall |-> 82]]

\* an object whose catalysts, when it has a list of them, follow the prompt
Object(keys, cites, catalysts) ==
    IF catalysts = "list" THEN ObjectOf(keys, cites, catalysts, 3, {1}, "bullish")
    ELSE ObjectOf(keys, cites, catalysts, 0, {},
                  IF "sentiment" \in keys THEN "bullish" ELSE "")

LlmInputs ==
    {[name |-> "error", t |-> "error", raw |-> None],
     [name |-> "garbage", t |-> "text", raw |-> [t |-> "garbage"]],
     [name |-> "array", t |-> "text", raw |-> [t |-> "json", v |-> [k |-> "array"]]],
     [name |-> "good", t |-> "text", raw |-> Object(LlmFields, {1}, "list")],
     [name |-> "orphan", t |-> "text", raw |-> Object(LlmFields, {1, 3}, "list")],
     [name |-> "nullcat", t |-> "text", raw |-> Object(LlmFields, {1}, "null")],
     [name |-> "partial", t |-> "text", raw |-> Object({"synthesis"}, {}, "absent")],
     [name |-> "unruly", t |-> "text",
      raw |-> ObjectOf(LlmFields, {1}, "list", 7, {1, 9}, "positive")]}

-----------------------------------------------------------------------------------------------------------------------------------------------------------------------------------------------------------------------------
(* The answers a call of the service meets: one of each kind *)

SomeCollect ==
    {cin \in CollectInputs :
        /\ ~cin.timeout /\ Len(cin.ddg) <= 1
        /\ cin.finnhub # <<>> => cin.ddg # <<>>}

SomeFetch == {f \in FetchShapes : f.o.jina = NoText \/ f.o.direct = f.o.jina}

SomeRerank == {s \in RerankShapes : s.ce \in {"nomodel", "thread_error"} /\ s.kw = "flat"
                                      /\ s.cohere = "nokey"}

SomeLlm == {lin \in LlmInputs : lin.name \in {"garbage", "good"}}

-----------------------------------------------------------------------------
(* The service: calls arrive one after the other, DELETE handlers and the clock run
   beside them *)

Next ==
    \/ \E r \in Runs, m \in Modes, q \in Requests : StartNext(r, m, q)
    \/ \E r \in Runs, fail \in BOOLEAN : GetRedis(r, fail)
    \/ \E r \in Runs : GetIn(r)
    \/ \E r \in Runs : GetRead(r)
    \/ \E r \in Runs : GetDel(r)
    \/ \E r \in Runs : O_AfterLookup(r)
    \/ \E r \in Runs : O_LookupError(r)
    \/ \E r \in Runs, cin \in SomeCollect : O_Collect(r, cin)
    \/ \E r \in Runs, f \in SomeFetch : O_Fetch(r, FetchInput(f, Len(loc[r].sources)))
    \/ \E r \in Runs : O_Chunk(r)
    \/ \E r \in Runs, s \in SomeRerank : O_Rerank(r, RerankInput(s, Len(loc[r].chunks)))
    \/ \E r \in Runs, lin \in SomeLlm, fail \in BOOLEAN : O_Synth(r, lin, fail)
    \/ \E r \in Runs : S_AfterLookup(r)
    \/ \E r \in Runs : S_LookupError(r)
    \/ \E r \in Runs : S_HitComplete(r)
    \/ \E r \in Runs : S_Searching(r)
    \/ \E r \in Runs, cin \in SomeCollect : S_Collect(r, cin)
    \/ \E r \in Runs : S_AfterSearch(r)
    \/ \E r \in Runs, f \in SomeFetch : S_Fetch(r, FetchInput(f, Len(loc[r].sources)))
    \/ \E r \in Runs : S_Chunking(r)
    \/ \E r \in Runs : S_Chunk(r)
    \/ \E r \in Runs : S_AfterChunk(r)
    \/ \E r \in Runs, s \in SomeRerank : S_Rerank(r, RerankInput(s, Len(loc[r].chunks)))
    \/ \E r \in Runs : S_Synthesizing(r)
    \/ \E r \in Runs, lin \in SomeLlm, fail \in BOOLEAN : S_Synth(r, lin, fail)
    \/ \E q \in Requests, fail \in BOOLEAN : DeleteRedis("A", q, fail)
    \/ DeletePop
    \/ Tick

Spec == Init /\ [][Next]_vars

-----------------------------------------------------------------------------
(* The two modes side by side: a one-shot call (run 1) and then a streaming call
   (run 2) for the same request, each on a cache of its own that starts empty, both
   meeting the same answers from the outside world *)

Oracles ==
    [collect : CollectInputs, fetch : FetchShapes, rerank : RerankShapes,
     llm : LlmInputs, storeFail : BOOLEAN]

InitEq ==
    /\ InitCommon
    /\ cacheOf = [r \in Runs |-> IF r = 1 THEN "A" ELSE "B"]
    /\ oracle \in Oracles
    /\ batch = NoBatch
    /\ rk = NoRerank
    /\ rag = NoRag

ModeOf(r) == IF r = 1 THEN "oneshot" ELSE "stream"

NextEq ==
    \/ \E r \in Runs, q \in Requests : StartNext(r, ModeOf(r), q)
    \/ \E r \in Runs : GetRedis(r, oracle.storeFail)
    \/ \E r \in Runs : GetIn(r)
    \/ \E r \in Runs : O_AfterLookup(r)
    \/ \E r \in Runs : O_Collect(r, oracle.collect)
    \/ \E r \in Runs : O_Fetch(r, FetchInput(oracle.fetch, Len(loc[r].sources)))
    \/ \E r \in Runs : O_Chunk(r)
    \/ \E r \in Runs : O_Rerank(r, RerankInput(oracle.rerank, Len(loc[r].chunks)))
    \/ \E r \in Runs : O_Synth(r, oracle.llm, oracle.storeFail)
    \/ \E r \in Runs : S_AfterLookup(r)
    \/ \E r \in Runs : S_Searching(r)
    \/ \E r \in Runs : S_Collect(r, oracle.collect)
    \/ \E r \in Runs : S_AfterSearch(r)
    \/ \E r \in Runs : S_Fetch(r, FetchInput(oracle.fetch, Len(loc[r].sources)))
    \/ \E r \in Runs : S_Chunking(r)
    \/ \E r \in Runs : S_Chunk(r)
    \/ \E r \in Runs : S_AfterChunk(r)
    \/ \E r \in Runs : S_Rerank(r, RerankInput(oracle.rerank, Len(loc[r].chunks)))
    \/ \E r \in Runs : S_Synthesizing(r)
    \/ \E r \in Runs : S_Synth(r, oracle.llm, oracle.storeFail)

SpecEq == InitEq /\ [][NextEq]_vars

-----------------------------------------------------------------------------
(* A one-shot call (run 1) and a streaming call (run 2) for the same request in one
   process, interleaved at their suspension points, on the one cache; both meet the
   same sources, pages and rerank tiers, each its own generation answer and its own
   answers of the shared store *)

InitPar ==
    /\ InitCommon
    /\ cacheOf = [r \in Runs |-> "A"]
    /\ oracle \in [collect : SomeCollect, fetch : SomeFetch, rerank : SomeRerank,
                   llm : {lin \in LlmInputs : lin.name = "good"}, storeFail : {FALSE}]
    /\ batch = NoBatch
    /\ rk = NoRerank
    /\ rag = NoRag

NextPar ==
    \/ \E r \in Runs, q \in Requests : StartRun(r, ModeOf(r), q)
    \/ \E r \in Runs, fail \in BOOLEAN : GetRedis(r, fail)
    \/ \E r \in Runs : GetIn(r)
    \/ \E r \in Runs : GetRead(r)
    \/ \E r \in Runs : O_AfterLookup(r)
    \/ \E r \in Runs : O_Collect(r, oracle.collect)
    \/ \E r \in Runs : O_Fetch(r, FetchInput(oracle.fetch, Len(loc[r].sources)))
    \/ \E r \in Runs : O_Chunk(r)
    \/ \E r \in Runs : O_Rerank(r, RerankInput(oracle.rerank, Len(loc[r].chunks)))
    \/ \E r \in Runs, lin \in SomeLlm, fail \in BOOLEAN : O_Synth(r, lin, fail)
    \/ \E r \in Runs : S_AfterLookup(r)
    \/ \E r \in Runs : S_HitComplete(r)
    \/ \E r \in Runs : S_Searching(r)
    \/ \E r \in Runs : S_Collect(r, oracle.collect)
    \/ \E r \in Runs : S_AfterSearch(r)
    \/ \E r \in Runs : S_Fetch(r, FetchInput(oracle.fetch, Len(loc[r].sources)))
    \/ \E r \in Runs : S_Chunking(r)
    \/ \E r \in Runs : S_Chunk(r)
    \/ \E r \in Runs : S_AfterChunk(r)
    \/ \E r \in Runs : S_Rerank(r, RerankInput(oracle.rerank, Len(loc[r].chunks)))
    \/ \E r \in Runs : S_Synthesizing(r)
    \/ \E r \in Runs, lin \in SomeLlm, fail \in BOOLEAN : S_Synth(r, lin, fail)

SpecPar == InitPar /\ [][NextPar]_vars

-----------------------------------------------------------------------------
(* fetch_all_parallel task by task: every source has a task running bounded_fetch;
   a task is suspended while it waits for the semaphore ("wait") and while its direct
   ("direct") or proxy ("jina") request is in flight *)

\* a web result with an empty body, a Finnhub article whose summary is null, and a
\* Finnhub article without url
SrcNoSnippet == [url |-> "https://c", title |-> "C", snippet |-> 0, content |-> 0,
                 source |-> "duckduckgo", timestamp |-> "", fetch_status |-> ""]
SrcNullSummary == [url |-> "https://n", title |-> "N", snippet |-> Null,
                   content |-> Null, source |-> "finnhub", timestamp |-> "1",
                   fetch_status |-> ""]
SrcNoUrl == [url |-> "", title |-> "U", snippet |-> 8, content |-> 8,
             source |-> "finnhub", timestamp |-> "1", fetch_status |-> ""]

\* n sources that all have to be fetched
AllFetched(n) ==
    [i \in 1..n |-> CASE i % 3 = 1 -> SrcB
                      [] i % 3 = 2 -> SrcNoSnippet
                      [] OTHER -> SrcNullSummary]

\* n sources of which the first two need no fetch
Mixed(n) ==
    [i \in 1..n |-> CASE i = 1 -> SrcNoUrl
                      [] i = 2 -> SrcF
                      [] OTHER -> SrcB]

Batches == {AllFetched(BatchSize), Mixed(BatchSize)}

\* what a request brings back: a page, a page with too little text, nothing (an
\* error, a timeout, a status other than 200)
FetchResults == {Text(300), Text(10), NoText}

\* a semaphore that lets everybody in
CanAcquireAlways(permits) == TRUE

\* Semaphore.acquire does not block
CanAcquire(permits) == permits > 0

InFlight == {i \in 1..Len(batch.at) : batch.at[i] \in {"direct", "jina"}}

AllDone == \A i \in 1..Len(batch.at) : batch.at[i] = "done"

serviceVars == <<now, cacheVars, delVars, cacheOf, oracle, mode, req, pc, loc, log, out,
                 hist, dhist>>

\* a request that has not returned yet
Pending == [ok |-> FALSE, text |-> Null]

\* the requests of a followed call, as they are sent and as they return, and the order
\* in which its tasks end
Sent(b, i, tier) ==
    IF b.track THEN [b EXCEPT !.tried[i] = Append(@, [tier |-> tier, got |-> Pending])]
    ELSE b
Answered(b, i, got) ==
    IF b.track THEN [b EXCEPT !.tried[i][Len(b.tried[i])].got = got] ELSE b
Finished(b, i) == IF b.track THEN [b EXCEPT !.order = Append(@, i)] ELSE b

\* a fetch_single that asks the proxy whatever the direct request brought
DirectNeverEnough(got) == FALSE

\* fetch_single, lines 76-78: the direct text is returned when there is one
DirectEnough(got) == AcceptFetched(got).ok

\* results handed back as the tasks end
gather_as_completed(sources, order) == [k \in 1..Len(order) |-> sources[order[k]]]

\* asyncio.gather, lines 133-134: the results in the order of the tasks, whatever the
\* order in which they ended
gather(sources, order) == [i \in 1..Len(sources) |-> sources[i]]

\* lines 101-112: the task of source i enters the semaphore and runs up to its first
\* suspension: it leaves at once for a source without url or with content, else its
\* direct request is under way
F_Begin(i) ==
    /\ i <= Len(batch.at)
    /\ batch.at[i] = "wait"
    /\ CanAcquire(batch.permits)
    /\ LET source == batch.sources[i]
       IN  IF source.url = ""
           THEN batch' = Finished([batch EXCEPT !.sources[i].fetch_status = "no_url",
                                             !.at[i] = "done"], i)
           ELSE IF Truthy(source.content) /\ Chars(source.content) > PREFILLED_CHARS
           THEN batch' = Finished([batch EXCEPT !.sources[i].fetch_status = "pre_filled",
                                             !.at[i] = "done"], i)
           ELSE batch' = Sent([batch EXCEPT !.at[i] = "direct", !.permits = @ - 1],
                              i, "direct")
    /\ UNCHANGED <<serviceVars, rk, rag>>

\* _fetch_direct has returned (it catches every exception): with text, bounded_fetch
\* ends and leaves the semaphore; without, the proxy request is under way
F_Direct(i, got) ==
    /\ i <= Len(batch.at)
    /\ batch.at[i] = "direct"
    /\ IF DirectEnough(got)
       THEN batch' = Finished(Answered(
                         [batch EXCEPT !.sources[i] = Settle(@, AcceptFetched(got)),
                                       !.at[i] = "done", !.permits = @ + 1],
                         i, got), i)
       ELSE batch' = Sent(Answered([batch EXCEPT !.at[i] = "jina"], i, got), i, "jina")
    /\ UNCHANGED <<serviceVars, rk, rag>>

\* _fetch_jina has returned (it catches every exception): bounded_fetch ends and leaves
\* the semaphore
F_Jina(i, got) ==
    /\ i <= Len(batch.at)
    /\ batch.at[i] = "jina"
    /\ batch' = Finished(Answered(
                    [batch EXCEPT !.sources[i] = Settle(@, AcceptFetched(got)),
                                  !.at[i] = "done", !.permits = @ + 1],
                    i, got), i)
    /\ UNCHANGED <<serviceVars, rk, rag>>

\* lines 134-143: every task is done, gather returns and so does fetch_all_parallel
F_Return ==
    /\ batch.at # <<>> /\ AllDone /\ ~batch.returned
    /\ batch' = [batch EXCEPT !.returned = TRUE,
                              !.result = gather(batch.sources, batch.order)]
    /\ UNCHANGED <<serviceVars, rk, rag>>

\* a call of fetch_all_parallel on sources, before any task has run
NewBatch(sources, track) ==
    [sources |-> sources, orig |-> sources, at |-> [i \in 1..Len(sources) |-> "wait"],
     permits |-> MAX_CONCURRENT, returned |-> FALSE, track |-> track,
     tried |-> [i \in 1..Len(sources) |-> <<>>], order |-> <<>>, result |-> <<>>]

InitFetch ==
    /\ InitCommon
    /\ redisUp = [c \in Caches |-> TRUE]
    /\ cacheOf = [r \in Runs |-> "A"]
    /\ oracle = NoOracle
    /\ \E sources \in Batches : batch = NewBatch(sources, FALSE)
    /\ rk = NoRerank
    /\ rag = NoRag

\* the tasks of the call, one per source
Tasks == 1..BatchSize

NextFetch ==
    \/ \E i \in Tasks : F_Begin(i)
    \/ \E i \in Tasks, got \in FetchResults : F_Direct(i, got)
    \/ \E i \in Tasks, got \in FetchResults : F_Jina(i, got)
    \/ F_Return

SpecFetch == InitFetch /\ [][NextFetch]_vars

-----------------------------------------------------------------------------
(* fetch_all_parallel on a few sources, followed request by request *)

\* a Finnhub article without url whose summary is long
SrcLongNoUrl == [SrcNoUrl EXCEPT !.snippet = 60, !.content = 60]

\* source i of a list, found at a url of its own
At(source, i) == [source EXCEPT !.url = "https://s/" \o ToString(i)]

\* sources that all have to be fetched, and sources of which the first two come with
\* their content; no two of a list have the same url
GatherBatches ==
    {[i \in 1..GatherSize |-> At(AllFetched(GatherSize)[i], i)],
     [i \in 1..GatherSize |-> CASE i = 1 -> SrcLongNoUrl
                                [] i = 2 -> SrcF
                                [] OTHER -> At(SrcB, i)]}

InitGather ==
    /\ InitCommon
    /\ redisUp = [c \in Caches |-> TRUE]
    /\ cacheOf = [r \in Runs |-> "A"]
    /\ oracle = NoOracle
    /\ \E sources \in GatherBatches : batch = NewBatch(sources, TRUE)
    /\ rk = NoRerank
    /\ rag = NoRag

SpecGather == InitGather /\ [][NextFetch]_vars

-----------------------------------------------------------------------------
(* The cache of one deployment on its own: writes and DELETE handlers for two keys,
   and the clock *)

Requests2 == Requests \cup {[ticker |-> "AAPL", exchange |-> "NASDAQ"]}
FullKeys2 == {MakeKey(CacheKey(q)) : q \in Requests2}

\* a document generated for the request at time t
DocFor(q, t) == [Fallback(q, t) EXCEPT !.pipeline = "production_v2"]

\* cache.set(cache_key, result) of some run
C_Set(q, fail) ==
    /\ CacheSetTo("A", MakeKey(CacheKey(q)), DocFor(q, now), fail)
    /\ UNCHANGED <<now, delVars, fixedVars, mode, req, pc, loc, log, out, hist, dhist>>

InitCache ==
    /\ now = 0
    /\ redisUp \in {[c \in Caches |-> b] : b \in BOOLEAN}
    /\ redis = [c \in Caches |-> [fk \in FullKeys2 |-> None]]
    /\ memory = [c \in Caches |-> [fk \in FullKeys2 |-> None]]
    /\ cacheOf = [r \in Runs |-> "A"]
    /\ mode = [r \in Runs |-> "none"]
    /\ req = [r \in Runs |-> NoReq]
    /\ pc = [r \in Runs |-> "idle"]
    /\ loc = [r \in Runs |-> InitLoc]
    /\ log = [r \in Runs |-> <<>>]
    /\ out = [r \in Runs |-> NoOut]
    /\ hist = [r \in Runs |-> InitHist]
    /\ dpc = "idle"
    /\ dkey = [cache |-> "A", key |-> "", pre |-> {}]
    /\ dhist = [evicted |-> {}, since |-> FALSE, count |-> 0, inflight |-> {},
                lastSet |-> 0]
    /\ oracle = NoOracle
    /\ batch = NoBatch
    /\ rk = NoRerank
    /\ rag = NoRag

NextCache ==
    \/ \E q \in Requests2, fail \in BOOLEAN : C_Set(q, fail)
    \/ \E q \in Requests2, fail \in BOOLEAN : DeleteRedis("A", q, fail)
    \/ DeletePop
    \/ Tick

SpecCache == InitCache /\ [][NextCache]_vars

-----------------------------------------------------------------------------
(* The Reranker of one process, call by call: tools/reranker.py *)

\* two calls of rerank_chunks are in progress on the event loop of one process
Calls == {1, 2}

ChunksOf(n) ==
    [i \in 1..n |->
        MakeChunk(IF i <= 2 THEN SrcF ELSE SrcB, 100 * i + 50, (i + 1) \div 2)]

\* the remote API keeps its contract: at most top_n results, the most relevant first
CohereTop(n, top_k) == [t |-> "hits", hits |-> Take(CohereHits(n).hits, top_k)]
\* the remote API answers with no result at all
CohereEmpty == [t |-> "hits", hits |-> <<>>]

\* what model.predict answers: one score per pair, a probability or a raw logit
Probs(n) == [i \in 1..n |-> 3500 + 2000 * (i % 3)]
Logits(n) == [i \in 1..n |-> 86000 - 60000 * i]

CohereAnswers == {"nokey", "raise", "empty", "hits"}
PredictAnswers == {"probs", "logits", "raise", "partial"}
KeywordAnswers == {"rising", "flat"}

\* the outcomes one call meets; "partial" is an answer of model.predict whose second
\* score cannot be converted by float(): the first score is written, then the loop raises
RerankEnv(co, ce, kw, n, top_k) ==
    [cohere |-> CASE co = "hits" -> CohereTop(n, top_k)
                  [] co = "empty" -> CohereEmpty
                  [] co = "raise" -> CohereRaises
                  [] OTHER -> NoKey,
     ce |-> CASE ce = "probs" -> [t |-> "scores", scores |-> Probs(n)]
              [] ce = "logits" -> [t |-> "scores", scores |-> Logits(n)]
              [] ce = "partial" -> [t |-> "partial", scores |-> Take(Probs(n), 1)]
              [] OTHER -> PredictRaises,
     kw |-> IF kw = "rising" THEN Rising(n) ELSE Flat(n)]

\* a call of rerank_chunks that has not run yet
NewCall(n, top_k, co, ce, kw) ==
    [pc |-> "idle", input |-> ChunksOf(n), chunks |-> ChunksOf(n), top_k |-> top_k,
     env |-> RerankEnv(co, ce, kw, n, top_k), tried |-> <<>>, result |-> <<>>]

Tried(c, tier, gave) == [c EXCEPT !.tried = @ \o <<[tier |-> tier, gave |-> gave]>>]

\* return of rerank_chunks
Return(c, result) == [c EXCEPT !.pc = "done", !.result = result]

\* the keyword tier of rerank_chunks: every chunk of the list is scored in place
KeywordTier(c) ==
    LET result == rerank_with_keywords(c.chunks, c.env.kw, c.top_k)
    IN  Return(Tried([c EXCEPT !.chunks = WithScores(@, c.env.kw)],
                     "keyword", Len(result)), result)

\* rerank_chunks from its entry to the first await
R_Start(k) ==
    /\ rk.call # <<>>
    /\ rk.call[k].pc = "idle"
    /\ LET c == rk.call[k]
       IN  rk' = [rk EXCEPT !.call[k] =
                    IF c.input = <<>> THEN Return(c, <<>>)
                    ELSE IF c.env.cohere.t = "nokey"
                    THEN [Tried(c, "cohere", -1) EXCEPT !.pc = "load"]
                    ELSE [c EXCEPT !.pc = "cohere"]]
    /\ UNCHANGED <<serviceVars, batch, rag>>

\* co.rerank has answered or raised
R_Cohere(k) ==
    /\ rk.call # <<>>
    /\ rk.call[k].pc = "cohere"
    /\ LET c == rk.call[k]
           result == rerank_with_cohere(c.chunks, c.env.cohere)
       IN  rk' = [rk EXCEPT !.call[k] =
                    IF result # <<>>
                    THEN Return(Tried(c, "cohere", Len(result)), result)
                    ELSE [Tried(c, "cohere", IF c.env.cohere.t = "hits" THEN 0 ELSE -1)
                            EXCEPT !.pc = "load"]]
    /\ UNCHANGED <<serviceVars, batch, rag>>

\* _rerank_with_cross_encoder once _load_cross_encoder has returned model
Loaded(c, model) ==
    IF model = "none" THEN KeywordTier(Tried(c, "cross_encoder", -1))
    ELSE [c EXCEPT !.pc = "predict"]

\* the thread of asyncio.to_thread(_load_cross_encoder) reads _cross_encoder_loaded
L_Check(k) ==
    /\ rk.call # <<>>
    /\ rk.call[k].pc = "load"
    /\ rk' = [rk EXCEPT !.call[k] =
                IF rk.loaded THEN Loaded(@, rk.encoder) ELSE [@ EXCEPT !.pc = "build"]]
    /\ UNCHANGED <<serviceVars, batch, rag>>

\* the thread has constructed CrossEncoder(...), or the construction has raised
L_Build(k, o) ==
    /\ rk.call # <<>>
    /\ rk.call[k].pc = "build"
    /\ rk' = [rk EXCEPT !.encoder = o, !.loaded = TRUE,
                        !.built = IF o = "model" THEN @ + 1 ELSE @,
                        !.call[k] = Loaded(@, o)]
    /\ UNCHANGED <<serviceVars, batch, rag>>

\* model.predict has answered or raised
R_Predict(k) ==
    /\ rk.call # <<>>
    /\ rk.call[k].pc = "predict"
    /\ LET c == rk.call[k]
           result == rerank_with_cross_encoder(c.chunks, c.env.ce, c.top_k)
           scored == [c EXCEPT !.chunks = WithScores(@, c.env.ce.scores)]
       IN  rk' = [rk EXCEPT !.call[k] =
                    IF result # <<>>
                    THEN Return(Tried(scored, "cross_encoder", Len(result)), result)
                    ELSE KeywordTier(Tried(scored, "cross_encoder", -1))]
    /\ UNCHANGED <<serviceVars, batch, rag>>

LoadOutcomes == {"model", "none"}

InitRerank ==
    /\ InitCommon
    /\ rag = NoRag
    /\ redisUp = [c \in Caches |-> TRUE]
    /\ cacheOf = [r \in Runs |-> "A"]
    /\ oracle = NoOracle
    /\ batch = NoBatch
    /\ \E n \in {0, 2, MaxChunks}, top_k \in {2, TOP_K},
          co \in CohereAnswers, ce \in PredictAnswers, kw \in KeywordAnswers :
          rk = [loaded |-> FALSE, encoder |-> "none", built |-> 0,
                call |-> <<NewCall(n, top_k, co, ce, kw),
                           NewCall(2, TOP_K, "nokey", "probs", "flat")>>]

NextRerank ==
    \/ \E k \in Calls : R_Start(k)
    \/ \E k \in Calls : R_Cohere(k)
    \/ \E k \in Calls : L_Check(k)
    \/ \E k \in Calls, o \in LoadOutcomes : L_Build(k, o)
    \/ \E k \in Calls : R_Predict(k)

SpecRerank == InitRerank /\ [][NextRerank]_vars

-----------------------------------------------------------------------------
(* One pass through tools/rag_pipeline.py: the enriched sources are chunked, some of
   the chunks are kept in the order of their scores, the citation map and the context
   of the prompt are built from the chunks kept *)

\* the contents a source reaches the Chunker with, in words: null, too few characters,
\* characters enough but fewer words than a chunk needs, one chunk, and texts of more
\* than one window, the last of them too short to be kept or long enough
Contents == {Null, 10, 20, 40, 401, 670}

\* source i of a list, with content w
SourceWith(i, w) ==
    [SrcB EXCEPT !.url = "https://s/" \o ToString(i), !.title = "S" \o ToString(i),
                 !.content = w]

SourceLists ==
    UNION {{[i \in 1..n |-> SourceWith(i, ws[i])] : ws \in [1..n -> Contents]} :
              n \in 0..MaxSources}

\* the caps of the context: below one block, two blocks of 604 characters and one
\* character to spare, and the cap _step_synthesize passes
Caps == {500, 1209, 10000}

\* the chunks the Reranker keeps: at most top_k, in the order of the scores
Selections == {[kw |-> kw, top_k |-> k] : kw \in KeywordAnswers, k \in {2, TOP_K}}

Select(chunks, sel) ==
    rerank_with_keywords(chunks,
                         IF sel.kw = "rising" THEN Rising(Len(chunks)) ELSE Flat(Len(chunks)),
                         sel.top_k)

\* chunks = _step_build_chunks(enriched)
G_Chunk ==
    /\ rag.pc = "sources"
    /\ rag' = [rag EXCEPT !.pc = "chunks",
                          !.chunks = build_chunks_from_sources(rag.sources)]
    /\ UNCHANGED <<serviceVars, batch, rk>>

\* top_chunks = await _step_rerank(chunks, ...)
G_Rerank(sel) ==
    /\ rag.pc = "chunks"
    /\ rag' = [rag EXCEPT !.pc = "top", !.top = Select(rag.chunks, sel)]
    /\ UNCHANGED <<serviceVars, batch, rk>>

\* context_text = build_llm_context(top_chunks, max_chars)
G_Context ==
    /\ rag.pc = "top"
    /\ rag' = [rag EXCEPT !.pc = "context",
                          !.context = build_llm_context(rag.top, rag.max_chars)]
    /\ UNCHANGED <<serviceVars, batch, rk>>

\* citation_map = build_citation_map(top_chunks)
G_Cite ==
    /\ rag.pc = "context"
    /\ rag' = [rag EXCEPT !.pc = "done", !.citations = build_citation_map(rag.top)]
    /\ UNCHANGED <<serviceVars, batch, rk>>

InitRag ==
    /\ InitCommon
    /\ redisUp = [c \in Caches |-> TRUE]
    /\ cacheOf = [r \in Runs |-> "A"]
    /\ oracle = NoOracle
    /\ batch = NoBatch
    /\ rk = NoRerank
    /\ \E sources \in SourceLists, max_chars \in Caps :
          rag = [NoRag EXCEPT !.pc = "sources", !.sources = sources,
                              !.max_chars = max_chars]

NextRag ==
    \/ G_Chunk
    \/ \E sel \in Selections : G_Rerank(sel)
    \/ G_Context
    \/ G_Cite

SpecRag == InitRag /\ [][NextRag]_vars

-----------------------------------------------------------------------------
(* What a finished call shows *)

\* the call of run r is over and no later call has arrived
Ended(r) == pc[r] = "done" /\ mode[r] # "none"

IsStage(e) == e.kind = "stage"
IsCacheSet(e) == e.kind = "cache_set"
Terminal(e) == e.kind = "event" /\ e.name \in {"complete", "error"}

Marks(seq) == [i \in 1..Len(seq) |-> <<seq[i].kind, seq[i].name>>]
Names(seq) == [i \in 1..Len(seq) |-> seq[i].name]
StageNames(r) == Names(SelectSeq(log[r], IsStage))
Last(seq) == seq[Len(seq)]

StageOrder == <<"collecting", "fetching", "chunking", "reranking", "synthesizing">>

IsPrefix(s, t) == Len(s) <= Len(t) /\ \A i \in 1..Len(s) : s[i] = t[i]

IsFallbackDoc(d) ==
    /\ d # None
    /\ d.pipeline = "fallback"
    /\ d.sources = NoSources
    /\ d.keys = AllFields

\* every [N] of the synthesis has the key N in sources
Cited(d) == \A n \in d.cites : Str(n) \in DOMAIN d.sources

Untimed(d) == [d EXCEPT !.research_timestamp = 0]

\* what the answers of the outside world make of a run that misses the cache
Course(q, o) ==
    LET col == step_collect_sources(q, o.collect)
        enriched == fetch_all_parallel(col.sources,
                                       FetchInput(o.fetch, Len(col.sources)).os)
        chunks == build_chunks_from_sources(enriched)
        rr == rerank_chunks(chunks, RerankInput(o.rerank, Len(chunks)), TOP_K)
        syn == step_synthesize(q, rr.chunks, o.llm, 0)
    IN  IF col.raised THEN [raised |-> "collecting", empty |-> "none", generated |-> FALSE]
        ELSE IF col.sources = <<>>
        THEN [raised |-> "none", empty |-> "collecting", generated |-> FALSE]
        ELSE IF o.fetch.raises
        THEN [raised |-> "fetching", empty |-> "none", generated |-> FALSE]
        ELSE IF chunks = <<>>
        THEN [raised |-> "none", empty |-> "chunking", generated |-> FALSE]
        ELSE IF rr.raised
        THEN [raised |-> "reranking", empty |-> "none", generated |-> FALSE]
        ELSE IF rr.chunks = <<>>
        THEN [raised |-> "none", empty |-> "reranking", generated |-> FALSE]
        ELSE IF syn.raised
        THEN [raised |-> "synthesizing", empty |-> "none", generated |-> FALSE]
        ELSE [raised |-> "none", empty |-> "none",
              generated |-> syn.doc.pipeline # "fallback"]

-----------------------------------------------------------------------------
(* Claims about the service (Spec) *)

\* C1: a run in which the cache lookup, a stage or the cache write raised ends in
\* degraded_fallback: no exception reaches the caller, the document handed over is the
\* fallback document (pipeline "fallback", empty sources, every required field), and a
\* stream carries it in its one terminal event.
C1_ExceptionEndsInFallback ==
    \A r \in Runs :
        Ended(r) /\ hist[r].raisedAt # "none" =>
            /\ out[r].kind # "raised"
            /\ IsFallbackDoc(out[r].doc)
            /\ mode[r] = "stream" =>
                  /\ Len(SelectSeq(log[r], Terminal)) = 1
                  /\ Last(log[r]).result = out[r].doc

\* the second of two successive one-shot calls, made before the time to live that
\* started with the first has run out, no DELETE step in between or during it
Successive ==
    /\ Ended(2)
    /\ mode[2] = "oneshot"
    /\ hist[2].prev.mode = "oneshot"
    /\ out[1].kind = "returned"
    /\ hist[2].clean
    /\ hist[2].startAt < hist[2].prev.endAt + TtlTicks

ServedAgain ==
    /\ out[2].kind = "returned"
    /\ out[2].doc = out[1].doc
    /\ hist[2].hit
    /\ log[2] = <<>>

C5_DeletedDocumentNotServed ==
    \A r \in Runs :
        Ended(r) /\ mode[r] = "oneshot" /\ out[r].kind = "returned" =>
            out[r].doc \notin hist[r].evicted

\* what a run served from the cache shows
HitShape(r) ==
    /\ out[r].doc \in hist[r].kept
    /\ ~hist[r].wrote
    /\ mode[r] = "oneshot" => out[r].kind = "returned" /\ log[r] = <<>>
    /\ mode[r] = "stream" =>
          log[r] = <<Event("cache_hit", 0, None), Event("complete", 0, out[r].doc)>>

\* C8: a run that starts while the cache holds an unexpired document under its key
\* (the store answering, no DELETE at work) is served that document unchanged: the
\* stream is exactly cache_hit, complete; the one-shot call returns it; no stage runs
\* and the cache is not written. Every run served from the cache has this shape.
C8_HitServedUnchanged ==
    \A r \in Runs :
        Ended(r) =>
            /\ hist[r].hit => HitShape(r)
            /\ hist[r].held # None /\ hist[r].clean /\ ~hist[r].storeFail =>
                  hist[r].hit /\ out[r].doc = hist[r].held

\* C8, a case: a streaming run is served the document the cache held when it
\* started.
C8_Witness ==
    \E r \in Runs :
        /\ Ended(r)
        /\ mode[r] = "stream"
        /\ hist[r].held # None /\ hist[r].clean /\ ~hist[r].storeFail
        /\ hist[r].hit
        /\ out[r].doc = hist[r].held
        /\ Len(log[r]) = 2

\* C10: the stages of a run are entered in the order collecting, fetching, chunking,
\* reranking, synthesizing, each at most once; the run ends in exactly one terminal
\* outcome, a document handed over; a stream ends with its one terminal event.
C10_OrderedStagesOneOutcome ==
    \A r \in Runs :
        /\ IsPrefix(StageNames(r), StageOrder)
        /\ Ended(r) =>
              /\ out[r].kind \in {"returned", "streamed"}
              /\ out[r].doc # None
              /\ mode[r] = "stream" =>
                    /\ Len(SelectSeq(log[r], Terminal)) = 1
                    /\ Terminal(Last(log[r]))

-----------------------------------------------------------------------------
(* Claims about a run that misses the cache, in both modes (SpecEq) *)

\* C2: in every document a run hands over or the cache keeps, each citation marker [N]
\* of the synthesis has the key N in sources, whatever the generation returned.
C2_CitationsResolve ==
    /\ \A r \in Runs : Ended(r) /\ out[r].doc # None => Cited(out[r].doc)
    /\ \A c \in Caches, fk \in FullKeys : \A d \in Kept(c, fk) : Cited(d)

\* C3: a one-shot run and a streaming run for the same request, each from an empty
\* cache and meeting the same answers, end with the same kind of document and with the
\* same cache state under the key: written by both or by neither, with the same
\* document.
C3_ModesAgree ==
    pc[1] = "done" /\ Ended(2) =>
        LET fk == FK(2) IN
        /\ out[1].doc.pipeline = out[2].doc.pipeline
        /\ Untimed(out[1].doc) = Untimed(out[2].doc)
        /\ {Untimed(d) : d \in Kept("A", fk)} = {Untimed(d) : d \in Kept("B", fk)}

\* the log of a streaming run that goes through every stage and completes
HappyLog ==
    <<<<"event", "starting">>, <<"event", "searching">>,
      <<"stage", "collecting">>, <<"event", "search_done">>,
      <<"event", "fetching">>, <<"stage", "fetching">>, <<"event", "fetch_done">>,
      <<"event", "chunking">>, <<"stage", "chunking">>, <<"event", "chunk_done">>,
      <<"event", "reranking">>, <<"stage", "reranking">>, <<"event", "rerank_done">>,
      <<"event", "synthesizing">>, <<"stage", "synthesizing">>,
      <<"cache_set", "cache_set">>, <<"event", "complete">>>>

\* C6: a streaming run that misses the cache, no stage of which fails or comes back
\* empty, emits starting, searching, search_done, fetching, fetch_done, chunking,
\* chunk_done, reranking, rerank_done, synthesizing, complete, once each and in this
\* order, each *_done after its stage and before the next, complete after the cache
\* write.
C6_HappyStreamEvents ==
    \A r \in Runs :
        LET course == Course(req[r], oracle) IN
        Ended(r) /\ mode[r] = "stream" /\ ~hist[r].hit
                 /\ course.raised = "none" /\ course.empty = "none" /\ course.generated =>
            Marks(log[r]) = HappyLog

\* C7: a streaming run that was not served from the cache and ends with the fallback
\* document ends with an error event carrying it; no complete event carries a document
\* whose pipeline is "fallback".
C7_FallbackEndsInError ==
    \A r \in Runs :
        Ended(r) /\ mode[r] = "stream" /\ ~hist[r].hit =>
            /\ out[r].doc.pipeline = "fallback" =>
                  Last(log[r]) = Event("error", 0, out[r].doc)
            /\ \A i \in 1..Len(log[r]) :
                  log[r][i].kind = "event" /\ log[r][i].name = "complete" =>
                      log[r][i].result.pipeline # "fallback"

\* C9: a run one of whose stages comes back empty (no source, no chunk, no reranked
\* chunk) ends at that stage with the fallback document (confidence below 0.5, empty
\* sources): no later stage runs, the generation is not called, nothing is written to
\* the cache; this in both modes, a stream ending with the error event.
C9_EmptyStageEndsInFallback ==
    \A r \in Runs :
        LET course == Course(req[r], oracle) IN
        Ended(r) /\ course.empty # "none" =>
            /\ IsFallbackDoc(out[r].doc)
            /\ out[r].doc.confidence_overall < 50
            /\ IsPrefix(StageNames(r), StageOrder)
            /\ StageNames(r) # <<>>
            /\ Last(StageNames(r)) = course.empty
            /\ SelectSeq(log[r], IsCacheSet) = <<>>
            /\ ~hist[r].wrote
            /\ hist[r].llm = "none"
            /\ Kept(cacheOf[r], FK(r)) = {}
            /\ mode[r] = "stream" => Last(log[r]) = Event("error", 0, out[r].doc)

\* C9, a case: both runs end at chunking, no source giving a chunk.
C9_Witness ==
    /\ Ended(2)
    /\ mode[2] = "stream"
    /\ Course(req[2], oracle).empty = "chunking"
    /\ IsFallbackDoc(out[2].doc)
    /\ IsFallbackDoc(out[1].doc)
    /\ StageNames(2) = <<"collecting", "fetching", "chunking">>

-----------------------------------------------------------------------------
(* Claims about the stages *)

\* the one-shot call of run r went through _step_synthesize, which returned a document
Synthesized(r) ==
    /\ Ended(r) /\ mode[r] = "oneshot"
    /\ hist[r].llm # "none" /\ hist[r].raisedAt = "none"

\* C11: every document _step_synthesize returns is the complete fallback document or
\* has every field of a research document; when the generation call raises or answers
\* text that is not JSON, the fallback document is returned after that one attempt.
C11_SynthesizerDocumentWhole ==
    \A r \in Runs :
        Synthesized(r) =>
            /\ IsFallbackDoc(out[r].doc) \/ out[r].doc.keys = AllFields
            /\ hist[r].llm \in {"error", "garbage"} =>
                  /\ IsFallbackDoc(out[r].doc)
                  /\ Len(SelectSeq(StageNames(r), LAMBDA n : n = "synthesizing")) = 1

\* what the providers that completed before the deadline have returned
Completed(q, c) ==
    LET us == q.exchange \in UsExchanges
    IN  [finnhub |-> IF "finnhub" \in c.late \/ ~us THEN <<>> ELSE c.finnhub,
         duckduckgo |-> IF "duckduckgo" \in c.late THEN <<>>
                        ELSE multi_query_search(c.ddg),
         sec_edgar |-> IF "sec_edgar" \in c.late \/ ~us THEN <<>> ELSE c.edgar]

\* C12: when the Collector's deadline expires while a provider has completed, the
\* sources of the completed providers are kept and counted in the statistics, the
\* providers in flight add nothing, and the run goes on to the fetching stage with
\* these sources instead of ending for want of sources.
C12_DeadlineKeepsCompleted ==
    \A r \in Runs :
        LET c == oracle.collect
            done == Completed(req[r], c)
            kept == done.finnhub \o done.duckduckgo \o done.sec_edgar
            res == step_collect_sources(req[r], c)
        IN  Ended(r) /\ c.timeout /\ kept # <<>> =>
                /\ ~res.raised
                /\ res.sources = kept
                /\ res.stats = [finnhub |-> Len(done.finnhub),
                                duckduckgo |-> Len(done.duckduckgo),
                                sec_edgar |-> Len(done.sec_edgar), total |-> Len(kept)]
                /\ hist[r].emptyAt # "collecting"
                /\ "fetching" \in {StageNames(r)[i] : i \in 1..Len(StageNames(r))}

\* the sources of a run as the Content Fetcher leaves them
Enriched(q, o) ==
    LET col == step_collect_sources(q, o.collect)
    IN  fetch_all_parallel(col.sources, FetchInput(o.fetch, Len(col.sources)).os)

\* every direct and proxy fetch fails and every source has a snippet
OnlySnippets(q, o) ==
    LET sources == step_collect_sources(q, o.collect).sources
    IN  /\ sources # <<>>
        /\ ~o.fetch.raises
        /\ ~AcceptFetched(o.fetch.o.direct).ok /\ ~AcceptFetched(o.fetch.o.jina).ok
        /\ \A i \in 1..Len(sources) : Truthy(sources[i].snippet)

\* C13: if every direct and proxy fetch fails for every source while every source has
\* a non-empty snippet, every source that was fetched ends with fetch_status
\* snippet_only and its snippet as content, the Chunker builds at least one chunk, and
\* the run ends in complete when reranking and generation succeed.
C13_SnippetsCarryTheRun ==
    \A r \in Runs :
        LET enriched == Enriched(req[r], oracle)
            course == Course(req[r], oracle)
        IN  /\ Ended(r) /\ OnlySnippets(req[r], oracle)
            /\ course.raised # "reranking" /\ oracle.llm.name = "good"
            =>  /\ \A i \in 1..Len(enriched) :
                      enriched[i].fetch_status # "pre_filled" =>
                          /\ enriched[i].fetch_status = "snippet_only"
                          /\ enriched[i].content = enriched[i].snippet
                /\ build_chunks_from_sources(enriched) # <<>>
                /\ out[r].doc.pipeline = "production_v2"
                /\ mode[r] = "stream" => Last(log[r]).name = "complete"

\* the chunks a run hands to the Reranker
Chunked(q, o) == build_chunks_from_sources(Enriched(q, o))

\* the call of run r is over and went through the reranking stage
Reranked(r) ==
    Ended(r) /\ \E i \in 1..Len(StageNames(r)) : StageNames(r)[i] = "reranking"

\* the run of r ended in complete with a generated document
EndedComplete(r) ==
    /\ out[r].kind \in {"returned", "streamed"}
    /\ out[r].doc.pipeline = "production_v2"
    /\ mode[r] = "stream" => Last(log[r]).name = "complete"

Sentiments == {"bullish", "neutral", "bearish"}

\* C15: in every document other than the fallback document that a run returns,
\* whatever the generation call answered, sentiment is bullish, neutral or bearish,
\* there are between 1 and 5 catalysts, and every source_id of a catalyst is a key
\* of the document's sources.
C15_DocumentWithinSchema ==
    \A r \in Runs :
        /\ Ended(r) /\ out[r].kind \in {"returned", "streamed"}
        /\ out[r].doc # None /\ out[r].doc.pipeline # "fallback"
        =>  LET d == out[r].doc
            IN  /\ "sentiment" \in d.keys /\ d.sentiment \in Sentiments
                /\ "catalysts" \in d.keys /\ d.catalysts = "list"
                /\ d.catalyst_count \in 1..5
                /\ \A n \in d.catalyst_source_ids : Str(n) \in DOMAIN d.sources

\* everything the providers returned to the Collector of a run, in the order in
\* which it puts the providers
Returned(q, c) ==
    LET us == q.exchange \in UsExchanges
    IN  (IF us THEN c.finnhub ELSE <<>>) \o c.ddg \o (IF us THEN c.edgar ELSE <<>>)

\* the first source of a list with the url
FirstSeen(list, url) ==
    list[CHOOSE i \in 1..Len(list) :
            list[i].url = url /\ \A k \in 1..(i - 1) : list[k].url # url]

\* C16: the Collector's output never holds two sources with the same url; of a url
\* returned by more than one provider, or more than once by one provider, exactly one
\* source is kept, with the metadata of the one seen first.
C16_OneSourcePerUrl ==
    \A r \in Runs :
        LET sources == loc[r].sources
            returned == Returned(req[r], oracle.collect)
        IN  sources # <<>> =>
                /\ \A i, j \in 1..Len(sources) :
                      i # j => sources[i].url # sources[j].url
                /\ \A k \in 1..Len(returned) :
                      \E i \in 1..Len(sources) :
                          sources[i] = FirstSeen(returned, returned[k].url)

-----------------------------------------------------------------------------
(* Claims about fetch_all_parallel (SpecFetch) *)

Statuses == {"success", "pre_filled", "snippet_only", "failed", "no_url"}

\* what a source's direct and proxy requests can bring back
FetchPairs == [direct : FetchResults, jina : FetchResults]

\* C17: fetch_all_parallel terminates with every source carrying exactly one
\* fetch_status out of success, pre_filled, snippet_only, failed, no_url; a failure, a
\* timeout or an exception in one source's direct or proxy attempt never aborts the
\* batch and changes neither the status nor the content of another source: a source
\* whose task has not ended is as it came, a source whose task has ended is what
\* bounded_fetch makes of it and of its own requests' results, and as long as a task
\* has not ended some task can go on.
C17_EverySourceSettledAlone ==
    /\ \A i \in 1..Len(batch.at) :
          IF batch.at[i] = "done"
          THEN /\ batch.sources[i].fetch_status \in Statuses
               /\ \E o \in FetchPairs :
                     batch.sources[i] = bounded_fetch(batch.orig[i], o)
          ELSE batch.sources[i] = batch.orig[i]
    /\ batch.at # <<>> /\ ~AllDone =>
          \/ InFlight # {}
          \/ \E i \in 1..Len(batch.at) : batch.at[i] = "wait" /\ batch.permits > 0
    /\ batch.returned => AllDone

\* C17: the call has returned; both requests of one source failed, and the sources
\* before and after it were fetched
C17_Witness ==
    /\ batch.returned /\ Len(batch.at) > MAX_CONCURRENT
    /\ \E i \in 2..(Len(batch.at) - 1) :
          /\ batch.sources[i].fetch_status \in {"failed", "snippet_only"}
          /\ batch.sources[i - 1].fetch_status = "success"
          /\ batch.sources[i + 1].fetch_status = "success"

\* C18: once the Content Fetcher has dealt with a source, the source's content is a
\* string, possibly empty, and never null, whatever its fetch_status (no_url too) and
\* whether or not its snippet or provider summary was absent or null.
C18_ContentAlwaysString ==
    \A i \in 1..Len(batch.at) :
        batch.at[i] = "done" => batch.sources[i].content # Null

\* C20: at every moment of fetch_all_parallel at most MAX_CONCURRENT sources have a
\* direct or proxy request in progress, the semaphore counting them, and a waiting
\* source starts its request only while fewer than MAX_CONCURRENT are in progress,
\* that is, once a finished source has released its slot when all were taken.
C20_AtMostFiveInFlight ==
    /\ [](/\ Cardinality(InFlight) <= MAX_CONCURRENT
          /\ batch.permits = MAX_CONCURRENT - Cardinality(InFlight))
    /\ [][\A i \in 1..Len(batch.at) :
              batch.at[i] = "wait" /\ batch.at'[i] \in {"direct", "jina"} =>
                  Cardinality(InFlight) < MAX_CONCURRENT]_vars

\* C20: more sources than slots; one source has finished its requests, every slot is
\* taken again and nobody waits: the last source started on the released slot
C20_Witness ==
    /\ Len(batch.at) > MAX_CONCURRENT
    /\ Cardinality(InFlight) = MAX_CONCURRENT
    /\ \A i \in 1..Len(batch.at) : batch.at[i] # "wait"
    /\ \E i \in 1..Len(batch.at) :
          batch.at[i] = "done" /\ batch.sources[i].fetch_status = "success"

-----------------------------------------------------------------------------
(* Claims about the cache (SpecCache) *)

\* the cache of deployment "A"
CacheA == [up |-> redisUp["A"], redis |-> redis["A"], memory |-> memory["A"]]

\* C19: invalidating a key never raises, whether or not the key has an entry and
\* whether or not the shared store can be reached: the handler that has asked the
\* shared store goes on to the in-process map and returns. Invalidating twice leaves
\* the cache as invalidating once does, and no step of a DELETE handler changes the
\* entry of another key.
C19_InvalidateIdempotentAndLocal ==
    /\ [](\A q \in Requests2, fail \in BOOLEAN :
            LET fk == MakeKey(CacheKey(q))
                once == invalidate(CacheA, fk, fail)
            IN  /\ invalidate(once, fk, fail) = once
                /\ once.memory[fk] = None
                /\ CacheA.up /\ ~fail => once.redis[fk] = None
                /\ \A k \in FullKeys2 \ {fk} :
                      once.redis[k] = CacheA.redis[k] /\ once.memory[k] = CacheA.memory[k])
    /\ [](dpc = "pop" => ENABLED DeletePop)
    /\ [][dpc' # dpc =>
            /\ \A k \in FullKeys2 \ {dkey'.key} :
                  redis'["A"][k] = redis["A"][k] /\ memory'["A"][k] = memory["A"][k]
            /\ dpc' = "idle" =>
                  /\ memory'["A"][dkey.key] = None
                  /\ memory'["A"] = invalidate(CacheA, dkey.key, TRUE).memory]_vars

\* C19: a DELETE handler has returned; the key it invalidated had an entry and has
\* none left, the other key has kept its entries in the shared store and in the
\* in-process map
C19_Witness ==
    /\ dpc = "idle" /\ dhist.count > 0 /\ dhist.evicted # {}
    /\ Kept("A", dkey.key) = {}
    /\ \E k \in FullKeys2 \ {dkey.key} : redis["A"][k] # None /\ memory["A"][k] # None

\* C26: whatever individual calls to the shared store fail, a get returns a miss or
\* the value of the most recent completed set: never the value of an earlier set once
\* a later set has completed, never a value once a later invalidate has completed.
C26_GetSeesLatestWrite ==
    [][/\ \A q \in Requests2, fail \in BOOLEAN :
             C_Set(q, fail) =>
                 \A f \in BOOLEAN :
                     get(CacheA', MakeKey(CacheKey(q)), f, now') \in {None, DocFor(q, now)}
       /\ dpc = "pop" /\ dpc' = "idle" /\ Kept("A", dkey.key) \subseteq dkey.pre =>
             \A f \in BOOLEAN : get(CacheA', dkey.key, f, now') = None]_vars

-----------------------------------------------------------------------------
(* Claims about what the cache is given (Spec) *)

\* C21: only documents of runs that reached complete are written to the cache: no
\* run, one-shot or streaming, stores a document with pipeline "fallback", and no
\* later call is handed such a document from the cache.
C21_FallbackNeverCached ==
    /\ \A c \in Caches, fk \in FullKeys :
          \A d \in Kept(c, fk) : d.pipeline # "fallback"
    /\ \A r \in Runs :
          Ended(r) /\ hist[r].hit => out[r].doc.pipeline # "fallback"

\* C23: with the in-process map in use, a get that runs while another thread
\* invalidates the same key never raises: the membership test, the read and the
\* delete inside get are atomic with respect to the other operations on the key.
C23_GetNeverRaises ==
    \A r \in Runs : pc[r] # "get_error"

\* the document run p handed over, as the cache gives it back
WrittenBy(p) == {out[p].doc, JsonLoads(JsonDumps(out[p].doc))}

\* C24: when a DELETE for a key returns while a run for that key is in flight, the
\* document that run writes later is not served to a call made after the DELETE.
C24_OvertakenWriteNotServed ==
    \A r \in Runs :
        Ended(r) /\ hist[r].hit /\ r \notin dhist.inflight =>
            \A p \in dhist.inflight : out[r].doc \notin WrittenBy(p)

-----------------------------------------------------------------------------
(* Claims about interleaved runs (SpecPar) *)

\* what run r holds is what a run alone makes of the same answers
RunsAsAlone(r) ==
    LET q == req[r]
        chunks == Chunked(q, oracle)
        top == rerank_chunks(chunks, RerankInput(oracle.rerank, Len(chunks)), TOP_K).chunks
        lin == CHOOSE l \in LlmInputs : l.name = hist[r].llm
    IN  /\ loc[r].sources # <<>> =>
              loc[r].sources = step_collect_sources(q, oracle.collect).sources
        /\ loc[r].enriched # <<>> => loc[r].enriched = Enriched(q, oracle)
        /\ loc[r].chunks # <<>> => loc[r].chunks = chunks
        /\ loc[r].top_chunks # <<>> => loc[r].top_chunks = top
        /\ Ended(r) /\ hist[r].llm # "none" /\ hist[r].raisedAt = "none" =>
              Untimed(out[r].doc) = step_synthesize(q, top, lin, 0).doc

\* both calls are over and run w, the last to write, handed over what it wrote
LastWriter(w) ==
    /\ \A r \in Runs : Ended(r)
    /\ dhist.lastSet = w
    /\ hist[w].raisedAt = "none"

\* C25: when a streaming run and a one-shot run are interleaved at suspension points,
\* each run's sources, chunks, rerank scores and terminal document are those of the run
\* executed alone with the same external outcomes, and the cache finally holds the
\* document of whichever run wrote last.
C25_InterleavedRunsIndependent ==
    /\ \A r \in Runs : Running(r) \/ Ended(r) => RunsAsAlone(r)
    /\ \A w \in Runs :
          LastWriter(w) => Held("A", MakeKey(CacheKey(req[w])), now) = out[w].doc

-----------------------------------------------------------------------------
(* Claims about the Reranker (SpecRerank) *)

\* C22: over any interleaving of concurrent rerank calls in one process the local
\* cross-encoder model is constructed at most once: two calls that both reach
\* _load_cross_encoder before the first load has finished do not both construct it.
C22_ModelConstructedOnce == rk.built <= 1

\* the calls of rerank_chunks that have been made
Made == IF rk.call = <<>> THEN {} ELSE {rk.call[k] : k \in Calls}

TierOrder == <<"cohere", "cross_encoder", "keyword">>

\* the place in the input of call c of the chunk ch it returned
Pos(c, ch) == CHOOSE i \in 1..Len(c.input) : c.input[i].text = ch.text

\* the score the answer of a tier gives to chunk i of the input of call c
ScoreBy(c, tier, i) ==
    CASE tier = "cohere" ->
           LET hits == c.env.cohere.hits
           IN  hits[CHOOSE h \in 1..Len(hits) : hits[h].index = i].score
      [] tier = "cross_encoder" -> c.env.ce.scores[i]
      [] OTHER -> c.env.kw[i]

\* C27: rerank_chunks tries the tiers in the fixed order remote API, local
\* cross-encoder, keyword; a tier is attempted only if every earlier tier was
\* unavailable, failed or returned no chunks; every rerank_score of the returned list
\* was written by the one tier that produced the list.
C27_OneTierScoresTheResult ==
    \A c \in Made :
        /\ Len(c.tried) <= Len(TierOrder)
        /\ \A i \in 1..Len(c.tried) :
              /\ c.tried[i].tier = TierOrder[i]
              /\ i < Len(c.tried) => c.tried[i].gave <= 0
        /\ c.pc = "done" /\ c.input # <<>> =>
              /\ c.tried # <<>>
              /\ c.tried[Len(c.tried)].gave = Len(c.result)
              /\ \A j \in 1..Len(c.result) :
                    c.result[j].rerank_score =
                        ScoreBy(c, c.tried[Len(c.tried)].tier, Pos(c, c.result[j]))

\* C27: a call went through the three tiers: the remote call raised, the loop over the
\* scores of the cross-encoder raised after it had written one, and the keyword tier
\* returned the list
C27_Witness ==
    \E c \in Made :
        /\ c.pc = "done" /\ Len(c.tried) = 3
        /\ c.env.cohere.t = "raise" /\ c.env.ce.t = "partial"
        /\ Len(c.result) >= 2

\* C28: every chunk rerank_chunks returns has a rerank_score in [0, 1] (0 to 10000
\* in units of 1/10000), whichever tier produced the list and whatever raw scores
\* that tier computed.
C28_ScoresInUnitInterval ==
    \A c \in Made :
        \A j \in 1..Len(c.result) :
            c.result[j].rerank_score >= 0 /\ c.result[j].rerank_score <= 10000

\* chunk ch of the list handed to call c is not in the list it returned
Omitted(c, ch) == \A j \in 1..Len(c.result) : c.result[j].text # ch.text

\* C29: for a non-empty input rerank_chunks returns exactly min(top_k, n) chunks in
\* the order of non-increasing rerank_score, and no chunk it left out has a score
\* strictly higher than a chunk it returned, whichever tier produced the list.
C29_TopKInOrder ==
    \A c \in Made :
        c.pc = "done" /\ c.input # <<>> =>
            /\ Len(c.result) = Min(c.top_k, Len(c.input))
            /\ \A j \in 1..(Len(c.result) - 1) :
                  c.result[j].rerank_score >= c.result[j + 1].rerank_score
            /\ \A i \in 1..Len(c.chunks), j \in 1..Len(c.result) :
                  Omitted(c, c.chunks[i]) =>
                      c.chunks[i].rerank_score <= c.result[j].rerank_score

\* C29: the cross-encoder scored more chunks than top_k, in an order other than that
\* of the input, and the call returned top_k of them
C29_Witness ==
    \E c \in Made :
        /\ c.pc = "done" /\ Len(c.input) > c.top_k /\ Len(c.result) = c.top_k
        /\ Last(c.tried).tier = "cross_encoder"
        /\ c.result[1].text # c.input[1].text
        /\ \E i \in 1..Len(c.chunks) : Omitted(c, c.chunks[i])

\* a chunk without its score
Unscored(ch) == [ch EXCEPT !.rerank_score = 0]

\* C30: the Reranker changes no field of a chunk but rerank_score: every chunk it
\* returns has the text, source_id, source_url, source_title and source_type of one
\* chunk of the input, a chunk of the input is returned at most once, none is made up.
C30_OnlyScoreChanges ==
    \A c \in Made :
        /\ Len(c.chunks) = Len(c.input)
        /\ \A i \in 1..Len(c.chunks) : Unscored(c.chunks[i]) = Unscored(c.input[i])
        /\ \A j \in 1..Len(c.result) :
              \E i \in 1..Len(c.input) : Unscored(c.result[j]) = Unscored(c.input[i])
        /\ \A j1, j2 \in 1..Len(c.result) :
              j1 # j2 => Unscored(c.result[j1]) # Unscored(c.result[j2])

\* C30: the remote tier returned chunks of the input, rescored and in another order
C30_Witness ==
    \E c \in Made :
        /\ c.pc = "done" /\ Len(c.tried) = 1 /\ Len(c.result) >= 2
        /\ c.result[1].text # c.input[1].text
        /\ c.result[1].rerank_score # c.input[1].rerank_score

-----------------------------------------------------------------------------
(* Claims about the Chunker, the citation map and the context (SpecRag) *)

\* the source_ids of a list of chunks
SourceIds(chunks) == {chunks[i].source_id : i \in 1..Len(chunks)}

\* C31: the keys of the citation map are exactly the source_ids, as strings, of the
\* chunks kept, and the url, title, source_type and relevance_score of an entry are
\* those of the first chunk with that source_id in the order of the list.
C31_CitationMapOfFirstChunks ==
    rag.pc = "done" =>
        /\ DOMAIN rag.citations = {Str(sid) : sid \in SourceIds(rag.top)}
        /\ \A sid \in SourceIds(rag.top) :
              LET c == rag.top[FirstWith(rag.top, sid)]
                  e == rag.citations[Str(sid)]
              IN  /\ e.url = c.source_url /\ e.title = c.source_title
                  /\ e.source_type = c.source_type
                  /\ e.relevance_score = Round3(c.rerank_score)

\* C31: the map was built from chunks of two sources, one of them with a second chunk
\* further down the list that has another score
C31_Witness ==
    /\ rag.pc = "done" /\ Cardinality(DOMAIN rag.citations) >= 2
    /\ \E i, j \in 1..Len(rag.top) :
          /\ i < j /\ rag.top[i].source_id = rag.top[j].source_id
          /\ rag.top[i].rerank_score # rag.top[j].rerank_score

\* the Chunker has run
Chunked2 == rag.pc # "none" /\ rag.pc # "sources"

\* C32: all chunks of one source carry the same source_id, chunks of two sources
\* carry different source_ids, and the source_ids rise strictly in the order in which
\* the sources are processed.
C32_OneIdPerSource ==
    Chunked2 =>
        \A i, j \in 1..Len(rag.chunks) :
            LET a == rag.chunks[i]
                b == rag.chunks[j]
            IN  /\ a.source_url = b.source_url <=> a.source_id = b.source_id
                /\ i < j => a.source_id <= b.source_id
                /\ i < j /\ a.source_url # b.source_url => a.source_id < b.source_id

\* C32: two sources gave chunks, one of them more than one
C32_Witness ==
    /\ Chunked2 /\ Cardinality(SourceIds(rag.chunks)) >= 2
    /\ \E i \in 1..(Len(rag.chunks) - 1) :
          rag.chunks[i].source_url = rag.chunks[i + 1].source_url

\* C33: the source_ids of the chunks are exactly 1..n, n the number of sources that
\* gave at least one chunk: a source that gives no chunk consumes no id.
C33_IdsWithoutGaps ==
    Chunked2 =>
        SourceIds(rag.chunks) =
            1..Cardinality({rag.chunks[i].source_url : i \in 1..Len(rag.chunks)})

\* the chunks made of source i of the list
ChunksOfSource(i) ==
    SelectSeq(rag.chunks, LAMBDA c : c.source_url = rag.sources[i].url)

\* C34: every chunk the Chunker produces has at least 40 and at most 400 words, and a
\* source whose content is shorter than 100 characters yields no chunk.
C34_ChunkLengthsBounded ==
    Chunked2 =>
        /\ \A k \in 1..Len(rag.chunks) :
              /\ rag.chunks[k].text >= MIN_CHUNK_WORDS
              /\ rag.chunks[k].text <= CHUNK_SIZE
        /\ \A i \in 1..Len(rag.sources) :
              Chars(OrEmpty(rag.sources[i].content)) < MIN_CONTENT_CHARS =>
                  ChunksOfSource(i) = <<>>

\* C34: the Chunker made a chunk of 400 words and a shorter one of a long text, and
\* none of a source that has words but fewer than 100 characters
C34_Witness ==
    /\ Chunked2
    /\ \E k \in 1..Len(rag.chunks) : rag.chunks[k].text = CHUNK_SIZE
    /\ \E k \in 1..Len(rag.chunks) : rag.chunks[k].text < CHUNK_SIZE
    /\ \E i \in 1..Len(rag.sources) :
          /\ Truthy(rag.sources[i].content)
          /\ Chars(rag.sources[i].content) < MIN_CONTENT_CHARS

\* the windows chunk_text keeps of the content of source i
WindowsOf(i) == ChunkFrom(OrEmpty(rag.sources[i].content), 0)

C36_ContextWithinCap ==
    rag.pc \in {"context", "done"} =>
        /\ JoinedLen(rag.context) <= rag.max_chars
        /\ Len(rag.context) <= Len(rag.top)
        /\ \A k \in 1..Len(rag.context) : rag.context[k] = Block(rag.top[k])

-----------------------------------------------------------------------------
(* Claims about the requests of fetch_all_parallel (SpecGather) *)

\* the tiers asked for source i, in the order of the requests
TiersOf(i) == [k \in 1..Len(batch.tried[i]) |-> batch.tried[i][k].tier]

\* a request that brought a usable text: status 200 and more than 150 characters
Usable(got) == got.ok /\ Chars(got.text) > MIN_FETCH_CHARS

\* C37: for every source that is fetched, the direct tier is asked first and the proxy
\* tier only after the direct request has returned nothing (an error, a timeout, a
\* status other than 200 or a text of at most 150 characters); each tier is asked at
\* most once per source and run, and the proxy is never asked after a direct request
\* that brought a usable text.
C37_DirectThenProxyOnce ==
    \A i \in 1..Len(batch.at) :
        /\ TiersOf(i) \in {<<>>, <<"direct">>, <<"direct", "jina">>}
        /\ Len(batch.tried[i]) = 2 =>
              /\ batch.tried[i][1].got # Pending
              /\ ~Usable(batch.tried[i][1].got)
        /\ batch.at[i] = "done" /\ Len(batch.tried[i]) = 1 =>
              Usable(batch.tried[i][1].got)

\* a call has returned in which one source got its text from the proxy after a direct
\* page with too little text and another from its direct request alone
C37_Witness ==
    /\ batch.returned /\ batch.track
    /\ \E i, j \in 1..Len(batch.at) :
          /\ TiersOf(i) = <<"direct", "jina">>
          /\ batch.tried[i][1].got = Text(10)
          /\ Usable(batch.tried[i][2].got)
          /\ batch.sources[i].fetch_status = "success"
          /\ TiersOf(j) = <<"direct">>
          /\ batch.sources[j].fetch_status = "success"

\* source i came with content of more than 200 characters
PreFilled(i) ==
    Truthy(batch.orig[i].content) /\ Chars(batch.orig[i].content) > PREFILLED_CHARS

\* C38: for every source that comes with content of more than 200 characters, neither
\* a direct nor a proxy request is sent, the content stays as it came, and once its
\* task has ended its fetch_status is pre_filled.
C38_PreFilledLeftAlone ==
    \A i \in 1..Len(batch.at) :
        PreFilled(i) =>
            /\ batch.tried[i] = <<>>
            /\ batch.sources[i].content = batch.orig[i].content
            /\ batch.at[i] = "done" => batch.sources[i].fetch_status = "pre_filled"

\* where the source with this url stands in the list handed to fetch_all_parallel
InputPos(url) == CHOOSE i \in 1..Len(batch.orig) : batch.orig[i].url = url

\* C39: fetch_all_parallel returns one entry per source handed in, in the order in
\* which they were handed in, whatever the order in which the fetches ended; so the
\* Chunker numbers the sources that yield chunks in the order of the input list.
C39_ResultInInputOrder ==
    batch.returned =>
        /\ Len(batch.result) = Len(batch.orig)
        /\ \A i \in 1..Len(batch.orig) :
              /\ i <= Len(batch.result)
              /\ batch.result[i].url = batch.orig[i].url
              /\ batch.result[i].title = batch.orig[i].title
        /\ LET chunks == build_chunks_from_sources(batch.result)
           IN  \A k, l \in 1..Len(chunks) :
                   chunks[k].source_id < chunks[l].source_id <=>
                       InputPos(chunks[k].source_url) < InputPos(chunks[l].source_url)

\* a call has returned whose last source was the first to end and whose first source
\* was the last, and every source yields a chunk
C39_Witness ==
    /\ batch.returned /\ batch.track
    /\ batch.order = <<3, 2, 1>>
    /\ Len(build_chunks_from_sources(batch.result)) = 3
    /\ build_chunks_from_sources(batch.result)[3].source_url = batch.orig[3].url

-----------------------------------------------------------------------------
(* Claims about the expiry of in-process entries (Spec) *)

\* C40: with the in-process map, a get at time t returns an entry only if t is
\* strictly before the entry's expiry, which is the time of its set plus the TTL; a
\* get at or after the expiry returns a miss and removes the entry, so that no document
\* is served past its TTL; and a later set for the key restarts the TTL.
C40_NothingServedPastTtl ==
    [][/\ \A c \in Caches, fk \in FullKeys :
             memory'[c][fk] # memory[c][fk] /\ memory'[c][fk] # None =>
                 memory'[c][fk].expires_at = now + TtlTicks
       /\ \A r \in Runs :
             /\ pc[r] = "get_read" /\ pc'[r] = "got" =>
                   /\ memory[cacheOf[r]][FK(r)] # None
                   /\ loc'[r].cached = memory[cacheOf[r]][FK(r)].value
                   /\ now < memory[cacheOf[r]][FK(r)].expires_at
             /\ pc[r] = "get_read" /\ pc'[r] = "get_del" =>
                   now >= memory[cacheOf[r]][FK(r)].expires_at
             /\ pc[r] = "get_del" /\ pc'[r] # "get_del" =>
                   /\ pc'[r] = "got"
                   /\ loc'[r].cached = None
                   /\ memory'[cacheOf[r]][FK(r)] = None]_vars
====
